---- MODULE Spec2Model ----
(***************************************************************************)
(* Order execution and portfolio accounting of ai-trading-pro.             *)
(*                                                                         *)
(* Part 1: RealTradingEngine (services/real_trading_engine_fixed.py), the  *)
(*         in-memory engine behind /api/trading/execute-trade.             *)
(*                                                                         *)
(* Money in part 1 is counted in mills (1/1000 of a dollar): with prices   *)
(* that are whole multiples of 1000 dollars, the 0.1% slippage and the     *)
(* 0.1% fee are then whole numbers, so the arithmetic below is exact.      *)
(* Floating-point rounding is not modelled.                                *)
(***************************************************************************)
EXTENDS Integers, Sequences, FiniteSets, TLC

\* ------------------------------------------------------------------ bounds
MaxQty == 1            \* order quantities range over -MaxQty..MaxQty
MaxOrders == 2         \* number of orders the engine records in one run

\* --------------------------------------------------------- program constants
DemoBalance == 100000      \* add_account, demo broker
BrokerBalance == 10000     \* add_account, real broker
InitialOrderCounter == 1000
BTCPrice == 42000          \* _initialize_market_prices
FeeDivisor == 1000         \* fees = trade_value * 0.001
MaxPositionPercentage == 25   \* check_position_limits
SlippageDivisor == 1000    \* slippage = uniform(-0.001, 0.001)

\* --------------------------------------------------------------- input sets
Users == {"demo_user"}
UnknownUser == "nobody"
SupportedSymbols == {"BTC"}
RawSymbols == {"BTC", "btc-usd", "XRP"}
Sides == {"buy", "sell"}
OtherSides == {"short"}              \* data['side'].lower(): any string
OrderTypes == {"market", "limit"}
Slippages == {-1, 1}                    \* per mille, the ends of the range
LimitPrices == {0, 40000, 45000}        \* 0 stands for "no price" (None)
TickPrices == {42000, 43000}         \* prices the update thread reaches
Quantities == (0 - MaxQty)..MaxQty

TradeOrders ==
    [symbol : RawSymbols, side : Sides, quantity : Quantities,
     order_type : OrderTypes, price : LimitPrices]
    \cup [symbol : RawSymbols, side : OtherSides, quantity : {MaxQty},
          order_type : {"market"}, price : {0}]

VARIABLES
    accounts,        \* user_id -> [broker, balance, buying_power, is_active]
    positions,       \* user_id -> (symbol -> quantity), a dict per user
    trade_history,   \* user_id -> sequence of trade records
    market_prices,   \* symbol -> price in dollars
    order_counter,
    result,          \* the TradeResult the last execute_trade returned
    op,              \* the operation that took the last step
    threads,         \* two concurrent execute_trade calls: pc and locals
    raceBase,        \* the engine state when the first of the two began
    svc_db,          \* TradeExecutionService: the committed database rows
    svc_session,     \* the rows as the open db.session of a sweep sees them
    svc_queue,       \* the recommendations a running sweep has yet to handle
    svc_pc,          \* "idle", or "sweep" while execute_automated_trades runs
    svc_result,      \* what the last execute_market_order call returned
    svc_prices,      \* market_data_cache: symbol -> current_price
    auto_enabled,    \* AutoTradingSettings.is_enabled
    auto_min_confidence,     \* AutoTradingSettings.min_confidence, in percent
    auto_max_position_size,  \* AutoTradingSettings.max_position_size: <<v>>,
                             \* or <<>> for None
    svc_requests,    \* two concurrent /execute-order requests: pc and locals
    ai_portfolio,    \* AITradingEngine: the Portfolio row of the user
    ai_positions,    \* the Position rows of the portfolio
    ai_trades,       \* the Trade rows of the portfolio
    ai_queue,        \* opportunities the running session has yet to handle
    ai_pc,           \* "idle", or "trading" inside a trading session
    ai_settings,     \* the TradingSettings row of the user
    ai_asset_prices, \* Asset.current_price by symbol
    ai_last,         \* the opportunity last decided on, and the decision
    ai_clock,        \* the day, and whether its 09:30 session has run
    ai_day_open,     \* the price of each asset when the day began
    active_signals,  \* AdvancedTradingEngine.active_signals by symbol
    sig_call,        \* the last generate_stock_signals call: its symbol and
                     \* what the three strategies returned
    market_data_cache,   \* DeploymentTradingEngine: symbol -> the reading
                         \* and the lengths of the two histories
    deployment_signals,  \* its active_signals, in insertion order
    dep_threads,     \* the market thread and the signal thread: ticks
                     \* made, pc and locals
    dep_result,      \* what the last generate_all_signals computed, the
                     \* signals before it, what get_trading_signals returned
    is_running,      \* AITradingBot.is_running
    bot_config,      \* AITradingBot.config
    signals_history, \* the signals the bot generated
    active_positions,    \* symbol -> the position the bot tracks
    bot_threads,     \* the _bot_loop threads start_bot created: pc, index
                     \* into config.symbols, the score last computed
    demo_account,    \* real_trading_engine: balance and user_positions of
                     \* the demo user
    bot_result       \* how the exit orders of the last
                     \* _check_position_exits ended, by symbol

engineVars ==
    <<accounts, positions, trade_history, market_prices, order_counter,
      result, op>>

raceVars == <<threads, raceBase>>

svcVars ==
    <<svc_db, svc_session, svc_queue, svc_pc, svc_result, svc_prices,
      auto_enabled, auto_min_confidence, auto_max_position_size,
      svc_requests>>

sigVars == <<active_signals, sig_call>>

aiVars ==
    <<ai_portfolio, ai_positions, ai_trades, ai_queue, ai_pc, ai_settings,
      ai_asset_prices, ai_last, ai_clock, ai_day_open>>

depVars ==
    <<market_data_cache, deployment_signals, dep_threads, dep_result>>

botVars ==
    <<is_running, bot_config, signals_history, active_positions, bot_threads,
      demo_account, bot_result>>

vars == <<engineVars, raceVars, svcVars, aiVars, sigVars, depVars, botVars>>

\* ------------------------------------------------------------------ helpers
\* order.symbol.upper().replace('-USD', '').replace('USD', '')
NormalizeSymbol(raw) ==
    CASE raw = "btc-usd" -> "BTC"
      [] raw = "BTC"     -> "BTC"
      [] OTHER           -> raw

\* dict.get(symbol, 0)
PositionGet(pos, symbol) == IF symbol \in DOMAIN pos THEN pos[symbol] ELSE 0

\* d[symbol] = q on a dict
DictSet(pos, symbol, q) ==
    [s \in (DOMAIN pos) \cup {symbol} |-> IF s = symbol THEN q ELSE pos[s]]

\* del d[symbol]
DictDel(pos, symbol) == [s \in (DOMAIN pos) \ {symbol} |-> pos[s]]

NewAccount(broker, bal) ==
    [broker |-> broker, balance |-> bal * FeeDivisor,
     buying_power |-> bal * FeeDivisor, is_active |-> TRUE]

NoResult ==
    [success |-> FALSE, message |-> "none", order_id |-> 0,
     executed_quantity |-> 0, executed_price |-> 0, fees |-> 0]

Failure(msg) ==
    [success |-> FALSE, message |-> msg, order_id |-> 0,
     executed_quantity |-> 0, executed_price |-> 0, fees |-> 0]

\* executed price in mills per unit (lines 216-222)
ExecutedPrice(order, current_price, slippage) ==
    LET base == IF order.order_type = "limit" /\ order.price # 0
                THEN order.price ELSE current_price
    IN  IF order.order_type = "market"
        THEN base * (SlippageDivisor + slippage)
        ELSE base * SlippageDivisor

\* The engine state an execute_trade call reads and writes.
Engine(acc, pos, hist, ctr) ==
    [accounts |-> acc, positions |-> pos, trade_history |-> hist,
     order_counter |-> ctr]

\* The checks of execute_trade in the order the code makes them (lines
\* 195-214, 231, 250): the rejection message, or "ok".
Validate(e, prices, user_id, order, slippage) ==
    LET symbol == NormalizeSymbol(order.symbol) IN
    IF user_id \notin DOMAIN e.accounts THEN "Account not found"
    ELSE IF ~e.accounts[user_id].is_active THEN "Account is not active"
    ELSE IF symbol \notin DOMAIN prices THEN "Symbol not supported"
    ELSE
    LET executed_price == ExecutedPrice(order, prices[symbol], slippage)
        trade_value == executed_price * order.quantity
        fees == trade_value \div FeeDivisor
        total_cost == trade_value + fees
        current_position == PositionGet(e.positions[user_id], symbol)
    IN  IF order.side = "buy" /\ e.accounts[user_id].balance < total_cost
        THEN "Insufficient funds"
        ELSE IF order.side = "sell" /\ current_position < order.quantity
        THEN "Insufficient position to sell"
        ELSE "ok"

\* The trade record appended to the history (lines 271-281; the timestamp
\* is left out, and order_id keeps only the counter).
TradeRecord(e, prices, order, slippage) ==
    LET symbol == NormalizeSymbol(order.symbol)
        executed_price == ExecutedPrice(order, prices[symbol], slippage)
    IN  [order_id |-> e.order_counter, symbol |-> symbol,
         side |-> order.side, quantity |-> order.quantity,
         executed_price |-> executed_price,
         executed_quantity |-> order.quantity,
         fees |-> (executed_price * order.quantity) \div FeeDivisor,
         status |-> "filled"]

\* A variant of the fill that credits a sell without taking the fee off.
FillSellWithoutFee(e, prices, user_id, order, slippage) ==
    LET symbol == NormalizeSymbol(order.symbol)
        account == e.accounts[user_id]
        executed_price == ExecutedPrice(order, prices[symbol], slippage)
        trade_value == executed_price * order.quantity
        fees == trade_value \div FeeDivisor
        current_position == PositionGet(e.positions[user_id], symbol)
        balance1 ==
            CASE order.side = "buy"  -> account.balance - (trade_value + fees)
              [] order.side = "sell" -> account.balance + trade_value
              [] OTHER -> account.balance
        pos1 ==
            CASE order.side = "buy" ->
                   DictSet(e.positions[user_id], symbol,
                           current_position + order.quantity)
              [] order.side = "sell" ->
                   IF current_position - order.quantity <= 0
                   THEN DictDel(e.positions[user_id], symbol)
                   ELSE DictSet(e.positions[user_id], symbol,
                                current_position - order.quantity)
              [] OTHER -> e.positions[user_id]
    IN  Engine([e.accounts EXCEPT ![user_id].balance = balance1,
                                  ![user_id].buying_power = balance1],
               [e.positions EXCEPT ![user_id] = pos1],
               [e.trade_history EXCEPT ![user_id] =
                    Append(@, TradeRecord(e, prices, order, slippage))],
               e.order_counter + 1)

\* The updates of an order that passed the checks (lines 237-286).
Fill(e, prices, user_id, order, slippage) ==
    LET symbol == NormalizeSymbol(order.symbol)
        account == e.accounts[user_id]
        executed_price == ExecutedPrice(order, prices[symbol], slippage)
        trade_value == executed_price * order.quantity
        fees == trade_value \div FeeDivisor
        total_cost == trade_value + fees
        proceeds == trade_value - fees
        current_position == PositionGet(e.positions[user_id], symbol)
        balance1 ==
            CASE order.side = "buy"  -> account.balance - total_cost
              [] order.side = "sell" -> account.balance + proceeds
              [] OTHER -> account.balance
        buying_power1 ==
            IF order.side \in {"buy", "sell"} THEN balance1
            ELSE account.buying_power
        pos1 ==
            CASE order.side = "buy" ->
                   DictSet(e.positions[user_id], symbol,
                           current_position + order.quantity)
              [] order.side = "sell" ->
                   IF current_position - order.quantity <= 0
                   THEN DictDel(e.positions[user_id], symbol)
                   ELSE DictSet(e.positions[user_id], symbol,
                                current_position - order.quantity)
              [] OTHER -> e.positions[user_id]
    IN  Engine([e.accounts EXCEPT ![user_id].balance = balance1,
                                  ![user_id].buying_power = buying_power1],
               [e.positions EXCEPT ![user_id] = pos1],
               [e.trade_history EXCEPT ![user_id] =
                    Append(@, TradeRecord(e, prices, order, slippage))],
               e.order_counter + 1)

Success(rec) ==
    [success |-> TRUE, message |-> "order executed successfully",
     order_id |-> rec.order_id, executed_quantity |-> rec.quantity,
     executed_price |-> rec.executed_price, fees |-> rec.fees]

\* A variant of execute_trade that books a sell before it checks the
\* position, as TradeExecutionService.execute_market_order does.
ExecTradeBookBeforeCheck(e, prices, user_id, order, slippage) ==
    LET msg == Validate(e, prices, user_id, order, slippage) IN
    IF msg = "ok"
    THEN [engine |-> Fill(e, prices, user_id, order, slippage),
          result |-> Success(TradeRecord(e, prices, order, slippage))]
    ELSE IF msg = "Insufficient position to sell"
    THEN [engine |-> [e EXCEPT !.accounts =
                        Fill(e, prices, user_id, order, slippage).accounts],
          result |-> Failure(msg)]
    ELSE [engine |-> e, result |-> Failure(msg)]

\* execute_trade, lines 192-304: the engine state after the call and the
\* TradeResult returned.
ExecTrade(e, prices, user_id, order, slippage) ==
    LET msg == Validate(e, prices, user_id, order, slippage) IN
    IF msg = "ok"
    THEN [engine |-> Fill(e, prices, user_id, order, slippage),
          result |-> Success(TradeRecord(e, prices, order, slippage))]
    ELSE [engine |-> e, result |-> Failure(msg)]

\* ------------------------------------------------------------------ actions
EngineInit ==
    /\ accounts = [u \in Users |-> NewAccount("demo", DemoBalance)]
    /\ positions = [u \in Users |-> <<>>]
    /\ trade_history = [u \in Users |-> <<>>]
    /\ market_prices = [s \in SupportedSymbols |-> BTCPrice]
    /\ order_counter = InitialOrderCounter
    /\ result = NoResult
    /\ op = "init"

\* POST /execute-trade -> RealTradingEngine.execute_trade
ExecuteTradeCall(user_id, order, slippage) ==
    LET r == ExecTrade(Engine(accounts, positions, trade_history,
                              order_counter),
                       market_prices, user_id, order, slippage)
    IN  /\ order_counter < InitialOrderCounter + MaxOrders
        /\ accounts' = r.engine.accounts
        /\ positions' = r.engine.positions
        /\ trade_history' = r.engine.trade_history
        /\ order_counter' = r.engine.order_counter
        /\ result' = r.result
        /\ op' = "execute_trade"
        /\ UNCHANGED <<market_prices, raceVars, svcVars, aiVars, sigVars, depVars, botVars>>

ExecuteTrade ==
    \E user_id \in Users \cup {UnknownUser}, order \in TradeOrders,
       slippage \in Slippages :
        ExecuteTradeCall(user_id, order, slippage)

\* POST /connect -> add_account: (re)creates the account of the session user
AddAccount ==
    \E user_id \in Users, bal \in {DemoBalance, BrokerBalance} :
        /\ accounts' = [accounts EXCEPT ![user_id] =
               NewAccount(IF bal = DemoBalance THEN "demo" ELSE "alpaca",
                          bal)]
        /\ positions' = [positions EXCEPT ![user_id] = <<>>]
        /\ trade_history' = [trade_history EXCEPT ![user_id] = <<>>]
        /\ op' = "add_account"
        /\ UNCHANGED <<market_prices, order_counter, result, raceVars, svcVars, aiVars, sigVars, depVars, botVars>>

\* the background price thread (update_prices)
UpdatePrices ==
    \E s \in SupportedSymbols, p \in TickPrices :
        /\ market_prices' = [market_prices EXCEPT ![s] = p]
        /\ op' = "update_prices"
        /\ UNCHANGED <<accounts, positions, trade_history, order_counter,
                       result, raceVars, svcVars, aiVars, sigVars, depVars, botVars>>

CurrentEngine == Engine(accounts, positions, trade_history, order_counter)

\* get_account_info, lines 171-175: the balance plus quantity * market
\* price over the positions, in mills
PortfolioValue(e, prices, user_id) ==
    LET pos == e.positions[user_id]
        held == {s \in DOMAIN pos : s \in DOMAIN prices}
        RECURSIVE Sum(_)
        Sum(S) == IF S = {} THEN 0
                  ELSE LET s == CHOOSE x \in S : TRUE
                       IN  pos[s] * prices[s] * FeeDivisor + Sum(S \ {s})
    IN  e.accounts[user_id].balance + Sum(held)

\* get_market_price, lines 320-323
GetMarketPrice(prices, raw) ==
    LET symbol == NormalizeSymbol(raw)
    IN  IF symbol \in DOMAIN prices THEN prices[symbol] ELSE 0

\* TradingEngineRiskManagement.check_position_limits
\* (real_trading_engine_methods.py, lines 191-237): 'allowed'.  The code
\* compares position_value / portfolio_value * 100 with 25.0; the model
\* compares position_value * (100 / 25) with portfolio_value.
CheckPositionLimits(e, prices, user_id, symbol, quantity, side) ==
    IF user_id \notin DOMAIN e.accounts THEN FALSE
    ELSE
    LET current_quantity == PositionGet(e.positions[user_id], symbol)
        new_quantity == IF side = "buy" THEN current_quantity + quantity
                        ELSE current_quantity - quantity
        portfolio_value == PortfolioValue(e, prices, user_id)
        current_price == GetMarketPrice(prices, symbol)
        position_value ==
            (IF new_quantity < 0 THEN 0 - new_quantity ELSE new_quantity)
               * current_price * FeeDivisor
    IN  /\ ~(/\ portfolio_value > 0
             /\ position_value * (100 \div MaxPositionPercentage)
                   > portfolio_value)
        /\ new_quantity >= 0

LimitOrder(raw, side, q, p) ==
    [symbol |-> raw, side |-> side, quantity |-> q, order_type |-> "limit",
     price |-> p]

\* ---------------------------------------------------------------------
\* Two execute_trade calls of one account running in two threads (the Flask
\* server handles requests in threads and the engine takes no lock).  A
\* thread runs the statements of execute_trade in order; every read and
\* every write of shared state is a step of its own, so `x -= y` is a
\* load followed by a store.
\* ---------------------------------------------------------------------
ThreadIds == {1, 2}

RaceUser == "demo_user"

\* the orders of the two threads: market orders for a positive quantity
RaceOrders ==
    {o \in TradeOrders : /\ o.symbol = "BTC" /\ o.quantity > 0
                         /\ o.order_type = "market" /\ o.price = 0}

IdleThread ==
    [pc |-> "idle", order |-> LimitOrder("BTC", "buy", 0, 0), slippage |-> 0,
     executed_price |-> 0, current_position |-> 0, tmp |-> 0,
     order_id |-> 0, success |-> FALSE]

RaceInit ==
    /\ threads = [t \in ThreadIds |-> IdleThread]
    /\ raceBase = Engine(<<>>, <<>>, <<>>, 0)

NoneBegun == \A t \in ThreadIds : threads[t].pc = "idle"

\* locals of thread t
TradeValue(t) == threads[t].executed_price * threads[t].order.quantity
Fees(t) == TradeValue(t) \div FeeDivisor
ThreadSymbol(t) == NormalizeSymbol(threads[t].order.symbol)

Goto(t, label) == threads' = [threads EXCEPT ![t].pc = label]

\* a call made before the two concurrent ones start
RaceSetup ==
    /\ NoneBegun
    /\ \E o \in RaceOrders, sl \in Slippages :
          /\ ExecTrade(CurrentEngine, market_prices, RaceUser, o, sl)
                .result.success
          /\ ExecuteTradeCall(RaceUser, o, sl)

\* lines 195-226: the account and symbol checks pass for RaceUser and
\* "BTC"; the thread reads the market price and computes its price
RaceBegin(t) ==
    /\ threads[t].pc = "idle"
    /\ \E o \in RaceOrders, sl \in Slippages :
          threads' = [threads EXCEPT ![t] =
              [IdleThread EXCEPT
                  !.pc = "check", !.order = o, !.slippage = sl,
                  !.executed_price =
                      ExecutedPrice(o, market_prices[NormalizeSymbol(
                                           o.symbol)], sl)]]
    /\ raceBase' = IF NoneBegun THEN CurrentEngine ELSE raceBase
    /\ UNCHANGED <<engineVars, svcVars, aiVars, sigVars, depVars, botVars>>

\* line 231 (buy) and lines 249-250 (sell): the sufficiency check
RaceCheck(t) ==
    /\ threads[t].pc = "check"
    /\ IF threads[t].order.side = "buy"
       THEN threads' = [threads EXCEPT ![t].pc =
                IF accounts[RaceUser].balance < TradeValue(t) + Fees(t)
                THEN "done" ELSE "balance_load"]
       ELSE LET cur == PositionGet(positions[RaceUser], ThreadSymbol(t))
            IN  threads' = [threads EXCEPT
                    ![t].current_position = cur,
                    ![t].pc = IF cur < threads[t].order.quantity
                              THEN "done" ELSE "balance_load"]
    /\ UNCHANGED <<engineVars, raceBase, svcVars, aiVars, sigVars, depVars, botVars>>

\* lines 238 and 258: account.balance -= total_cost / += proceeds, load
RaceBalanceLoad(t) ==
    /\ threads[t].pc = "balance_load"
    /\ threads' = [threads EXCEPT ![t].tmp = accounts[RaceUser].balance,
                                  ![t].pc = "balance_store"]
    /\ UNCHANGED <<engineVars, raceBase, svcVars, aiVars, sigVars, depVars, botVars>>

\* lines 238 and 258: the store of the new balance
RaceBalanceStore(t) ==
    /\ threads[t].pc = "balance_store"
    /\ accounts' = [accounts EXCEPT ![RaceUser].balance =
           IF threads[t].order.side = "buy"
           THEN threads[t].tmp - (TradeValue(t) + Fees(t))
           ELSE threads[t].tmp + (TradeValue(t) - Fees(t))]
    /\ Goto(t, "power_load")
    /\ UNCHANGED <<positions, trade_history, market_prices, order_counter,
                   result, op, raceBase, svcVars, aiVars, sigVars, depVars, botVars>>

\* lines 239 and 259: account.buying_power = account.balance, load
RacePowerLoad(t) ==
    /\ threads[t].pc = "power_load"
    /\ threads' = [threads EXCEPT ![t].tmp = accounts[RaceUser].balance,
                                  ![t].pc = "power_store"]
    /\ UNCHANGED <<engineVars, raceBase, svcVars, aiVars, sigVars, depVars, botVars>>

\* lines 239 and 259: the store of buying_power
RacePowerStore(t) ==
    /\ threads[t].pc = "power_store"
    /\ accounts' = [accounts EXCEPT ![RaceUser].buying_power =
                                        threads[t].tmp]
    /\ Goto(t, IF threads[t].order.side = "buy"
               THEN "position_load" ELSE "position_store")
    /\ UNCHANGED <<positions, trade_history, market_prices, order_counter,
                   result, op, raceBase, svcVars, aiVars, sigVars, depVars, botVars>>

\* line 245: current_position = self.positions[user_id].get(symbol, 0)
RacePositionLoad(t) ==
    /\ threads[t].pc = "position_load"
    /\ threads' = [threads EXCEPT
           ![t].current_position =
               PositionGet(positions[RaceUser], ThreadSymbol(t)),
           ![t].pc = "position_store"]
    /\ UNCHANGED <<engineVars, raceBase, svcVars, aiVars, sigVars, depVars, botVars>>

\* lines 246 and 262: the store of the new quantity
RacePositionStore(t) ==
    /\ threads[t].pc = "position_store"
    /\ positions' = [positions EXCEPT ![RaceUser] =
           DictSet(@, ThreadSymbol(t),
                   IF threads[t].order.side = "buy"
                   THEN threads[t].current_position
                          + threads[t].order.quantity
                   ELSE threads[t].current_position
                          - threads[t].order.quantity)]
    /\ Goto(t, IF threads[t].order.side = "buy"
               THEN "counter_load" ELSE "position_test")
    /\ UNCHANGED <<accounts, trade_history, market_prices, order_counter,
                   result, op, raceBase, svcVars, aiVars, sigVars, depVars, botVars>>

\* lines 263-264: if self.positions[user_id][symbol] <= 0: del ...; a key
\* the other thread has deleted raises KeyError, which the handler of
\* lines 299-304 turns into a failure result
RacePositionTest(t) ==
    /\ threads[t].pc = "position_test"
    /\ Goto(t, IF ThreadSymbol(t) \notin DOMAIN positions[RaceUser]
               THEN "done"
               ELSE IF positions[RaceUser][ThreadSymbol(t)] <= 0
               THEN "position_del" ELSE "counter_load")
    /\ UNCHANGED <<engineVars, raceBase, svcVars, aiVars, sigVars, depVars, botVars>>

RacePositionDel(t) ==
    /\ threads[t].pc = "position_del"
    /\ IF ThreadSymbol(t) \in DOMAIN positions[RaceUser]
       THEN /\ positions' = [positions EXCEPT ![RaceUser] =
                                DictDel(@, ThreadSymbol(t))]
            /\ Goto(t, "counter_load")
       ELSE /\ UNCHANGED positions
            /\ Goto(t, "done")
    /\ UNCHANGED <<accounts, trade_history, market_prices, order_counter,
                   result, op, raceBase, svcVars, aiVars, sigVars, depVars, botVars>>

\* lines 267-268: the order id is built from the counter, and
\* self.order_counter += 1 loads the counter
RaceCounterLoad(t) ==
    /\ threads[t].pc = "counter_load"
    /\ threads' = [threads EXCEPT ![t].order_id = order_counter,
                                  ![t].tmp = order_counter,
                                  ![t].pc = "counter_store"]
    /\ UNCHANGED <<engineVars, raceBase, svcVars, aiVars, sigVars, depVars, botVars>>

RaceCounterStore(t) ==
    /\ threads[t].pc = "counter_store"
    /\ order_counter' = threads[t].tmp + 1
    /\ Goto(t, "append")
    /\ UNCHANGED <<accounts, positions, trade_history, market_prices,
                   result, op, raceBase, svcVars, aiVars, sigVars, depVars, botVars>>

\* lines 271-297: the record is appended and the call returns success
RaceAppend(t) ==
    /\ threads[t].pc = "append"
    /\ trade_history' = [trade_history EXCEPT ![RaceUser] = Append(@,
           [order_id |-> threads[t].order_id, symbol |-> ThreadSymbol(t),
            side |-> threads[t].order.side,
            quantity |-> threads[t].order.quantity,
            executed_price |-> threads[t].executed_price,
            executed_quantity |-> threads[t].order.quantity,
            fees |-> Fees(t), status |-> "filled"])]
    /\ threads' = [threads EXCEPT ![t].pc = "done", ![t].success = TRUE]
    /\ UNCHANGED <<accounts, positions, market_prices, order_counter,
                   result, op, raceBase, svcVars, aiVars, sigVars, depVars, botVars>>

RaceStep(t) ==
    \/ RaceCheck(t)
    \/ RaceBalanceLoad(t)
    \/ RaceBalanceStore(t)
    \/ RacePowerLoad(t)
    \/ RacePowerStore(t)
    \/ RacePositionLoad(t)
    \/ RacePositionStore(t)
    \/ RacePositionTest(t)
    \/ RacePositionDel(t)
    \/ RaceCounterLoad(t)
    \/ RaceCounterStore(t)
    \/ RaceAppend(t)

\* =====================================================================
\* DeploymentTradingEngine (services/deployment_trading_engine.py): the
\* indicator snapshot and the three asset-class strategies.  The engine
\* that runs them is Part 5; they stand here because the recommendations
\* of Part 2 are signals of this engine.
\*
\* A price and volume history enters the strategies only through the
\* values the indicator formulas give on it.  The model keeps a history as
\* that reading: rsi and adx in points, volume_ratio in tenths,
\* price_momentum_5d in percent, prices, averages and bands in 1/100000 of
\* the symbol's base price.  The target, the stop loss, the risk score and
\* the timestamp of a signal are left out.
\* =====================================================================
MinSamples == 50      \* calculate_technical_indicators: len(prices) < 50

Reading(current_price, rsi, macd, bollinger_lower, ema_9, ema_21, ema_50, ema_200, volume_ratio, price_momentum_5d) ==
    [current_price |-> current_price, rsi |-> rsi, macd |-> macd,
     bollinger_lower |-> bollinger_lower, ema_9 |-> ema_9,
     ema_21 |-> ema_21, ema_50 |-> ema_50, ema_200 |-> ema_200,
     volume_ratio |-> volume_ratio,
     price_momentum_5d |-> price_momentum_5d]

\* a quiet market: no branch of any strategy holds
FlatReading ==
    Reading(100000, 50, 0, 98000, 100000, 100000, 100000, 100000, 10, 0)

\* a slow rise followed by a small dip of the price under the lower band:
\* 186 samples rising from 0.98 to 1.02 of the base price, 14 samples each
\* 0.0005% lower than the one before, the last five volumes 1.2 and the
\* others 0.8 of the base volume, current price 1.017 of the base price
DipInUptrend ==
    Reading(101700, 0, 80, 101920, 101991, 101940, 101696, 100423, 13, 0)

StockReadings ==
    {FlatReading, DipInUptrend,
     \* a rally on volume
     Reading(100000, 60, 100, 97000, 99500, 99000, 98000, 96000, 16, 4),
     \* a quiet uptrend
     Reading(100000, 55, 50, 97000, 99500, 99000, 98000, 96000, 10, 1),
     \* a breakdown
     Reading(100000, 40, -100, 97000, 101000, 102000, 103000, 102000, 10,
             -6)}

\* a golden cross on volume
GoldenCross ==
    Reading(100000, 50, 50, 97000, 101000, 101000, 100000, 99000, 14, 2)

CryptoReadings ==
    {FlatReading, GoldenCross,
     \* oversold on a volume spike, under a falling average
     Reading(100000, 25, -50, 97000, 101000, 99000, 100000, 101000, 16, -4),
     \* a breakout on high volume
     Reading(100000, 70, 100, 97000, 99000, 99000, 98000, 97000, 21, 6),
     \* a trend reversal
     Reading(100000, 50, -50, 97000, 101000, 99000, 100000, 101000, 10,
             -2)}

\* a quiet meme coin
QuietReading ==
    Reading(100000, 50, 0, 98000, 100000, 100000, 100000, 100000, 15, 0)

MemeReadings ==
    {QuietReading,
     \* volume builds up
     Reading(100000, 50, 0, 98000, 100000, 100000, 100000, 100000, 21, 2),
     \* volume fades
     Reading(100000, 50, 0, 98000, 100000, 100000, 100000, 100000, 9, -3)}

\* adx = random.uniform(20, 60)
ADXValues == {20, 30}
\* social_score and whale_activity = random.uniform(0, 1), in tenths
SocialScores == {2, 5, 8}
WhaleActivities == {5, 9}

\* calculate_macd, line 327: macd_signal = macd * 0.9
MacdSignal(macd) == (macd * 9) \div 10

\* calculate_technical_indicators returned None
NoIndicators == [rsi |-> 0 - 1]

\* calculate_technical_indicators, lines 223-283, on a history of
\* price_history samples with the given reading; adx is drawn at random
CalculateTechnicalIndicators(price_history, reading, adx) ==
    IF price_history < MinSamples THEN NoIndicators
    ELSE [rsi |-> reading.rsi, macd |-> reading.macd,
          macd_signal |-> MacdSignal(reading.macd),
          bollinger_lower |-> reading.bollinger_lower,
          ema_9 |-> reading.ema_9, ema_21 |-> reading.ema_21,
          ema_50 |-> reading.ema_50, ema_200 |-> reading.ema_200,
          adx |-> adx, volume_ratio |-> reading.volume_ratio,
          price_momentum_5d |-> reading.price_momentum_5d]

\* a strategy returned None (the signal stayed HOLD)
NoSignal ==
    [symbol |-> "none", asset_type |-> "none", signal |-> "hold",
     confidence |-> 0, entry_price |-> 0, reasoning |-> "none"]

\* the TradingSignal a strategy returns; confidence in percent
TradingSignal(symbol, asset_type, signal, confidence, entry_price, reasoning) ==
    [symbol |-> symbol, asset_type |-> asset_type, signal |-> signal,
     confidence |-> confidence, entry_price |-> entry_price,
     reasoning |-> reasoning]

Min(a, b) == IF a < b THEN a ELSE b

\* A variant of the stock strategy whose momentum branch rates its signal
\* at 0.8.
StockTradingStrategyBold(symbol, indicators, current_price) ==
    IF /\ indicators.price_momentum_5d > 3
       /\ indicators.volume_ratio > 15
       /\ 50 <= indicators.rsi /\ indicators.rsi <= 75
       /\ indicators.macd > indicators.macd_signal
    THEN TradingSignal(symbol, "stock", "buy", Min(80, 95), current_price,
                       "Strong momentum with volume")
    ELSE IF /\ current_price <= indicators.bollinger_lower
            /\ indicators.rsi < 30
            /\ indicators.volume_ratio > 12
    THEN TradingSignal(symbol, "stock", "buy", Min(30, 95), current_price,
                       "Oversold mean reversion")
    ELSE IF /\ current_price > indicators.ema_50
            /\ indicators.ema_50 > indicators.ema_200
            /\ indicators.ema_9 > indicators.ema_21
            /\ indicators.adx > 25
    THEN TradingSignal(symbol, "stock", "buy", Min(35, 95), current_price,
                       "Strong uptrend confirmed")
    ELSE IF \/ indicators.rsi > 80
            \/ current_price < indicators.ema_9
            \/ indicators.price_momentum_5d < 0 - 5
    THEN TradingSignal(symbol, "stock", "sell", Min(60, 95), current_price,
                       "Overbought or momentum breakdown")
    ELSE NoSignal

\* stock_trading_strategy, lines 409-476: the if/elif chain, and
\* confidence = min(confidence, 0.95)
StockTradingStrategy(symbol, indicators, current_price) ==
    IF /\ indicators.price_momentum_5d > 3
       /\ indicators.volume_ratio > 15
       /\ 50 <= indicators.rsi /\ indicators.rsi <= 75
       /\ indicators.macd > indicators.macd_signal
    THEN TradingSignal(symbol, "stock", "buy", Min(40, 95), current_price,
                       "Strong momentum with volume")
    ELSE IF /\ current_price <= indicators.bollinger_lower
            /\ indicators.rsi < 30
            /\ indicators.volume_ratio > 12
    THEN TradingSignal(symbol, "stock", "buy", Min(30, 95), current_price,
                       "Oversold mean reversion")
    ELSE IF /\ current_price > indicators.ema_50
            /\ indicators.ema_50 > indicators.ema_200
            /\ indicators.ema_9 > indicators.ema_21
            /\ indicators.adx > 25
    THEN TradingSignal(symbol, "stock", "buy", Min(35, 95), current_price,
                       "Strong uptrend confirmed")
    ELSE IF \/ indicators.rsi > 80
            \/ current_price < indicators.ema_9
            \/ indicators.price_momentum_5d < 0 - 5
    THEN TradingSignal(symbol, "stock", "sell", Min(60, 95), current_price,
                       "Overbought or momentum breakdown")
    ELSE NoSignal

\* crypto_trading_strategy, lines 478-542
CryptoTradingStrategy(symbol, indicators, current_price) ==
    IF /\ indicators.ema_21 > indicators.ema_50
       /\ indicators.volume_ratio > 13
       /\ 40 <= indicators.rsi /\ indicators.rsi <= 65
    THEN TradingSignal(symbol, "crypto", "buy", Min(35, 90), current_price,
                       "Golden cross with volume")
    ELSE IF /\ indicators.rsi < 30
            /\ indicators.volume_ratio > 15
    THEN TradingSignal(symbol, "crypto", "buy", Min(30, 90), current_price,
                       "Oversold with volume spike")
    ELSE IF /\ indicators.volume_ratio > 20
            /\ indicators.price_momentum_5d > 5
    THEN TradingSignal(symbol, "crypto", "buy", Min(40, 90), current_price,
                       "High volume breakout")
    ELSE IF \/ indicators.rsi > 75
            \/ indicators.ema_21 < indicators.ema_50
            \/ indicators.volume_ratio < 7
    THEN TradingSignal(symbol, "crypto", "sell", Min(65, 90), current_price,
                       "Overbought or trend reversal")
    ELSE NoSignal

\* meme_coin_strategy, lines 544-604; social_score and whale_activity are
\* drawn at random inside the call
MemeCoinStrategy(symbol, indicators, current_price, social_score, whale_activity) ==
    IF /\ indicators.volume_ratio > 30
       /\ indicators.price_momentum_5d > 10
       /\ social_score > 7
    THEN TradingSignal(symbol, "meme_coin", "buy", Min(40, 80),
                       current_price, "Viral momentum detected")
    ELSE IF /\ whale_activity > 8
            /\ indicators.volume_ratio > 20
    THEN TradingSignal(symbol, "meme_coin", "buy", Min(35, 80),
                       current_price, "Whale accumulation")
    ELSE IF \/ indicators.volume_ratio < 10
            \/ indicators.price_momentum_5d < 0 - 15
            \/ social_score < 3
    THEN TradingSignal(symbol, "meme_coin", "sell", Min(70, 80),
                       current_price, "Momentum fading")
    ELSE NoSignal

\* generate_all_signals, lines 369-376: the asset type of a symbol
MemeCoins == {"DOGE-USD", "SHIB-USD", "PEPE-USD"}
UsdPairs == {"BTC-USD", "DOGE-USD"}
AssetTypeOf(symbol) ==
    IF symbol \in UsdPairs
    THEN IF symbol \in MemeCoins THEN "meme_coin" ELSE "crypto"
    ELSE "stock"

\* the random draws of one pass of generate_signal_for_asset
Draws ==
    [adx : ADXValues, social_score : SocialScores,
     whale_activity : WhaleActivities]

\* generate_signal_for_asset, lines 391-407: the indicator snapshot and the
\* signal (NoSignal for None) of a symbol
GenerateSignalForAsset(symbol, data, draw) ==
    LET indicators == CalculateTechnicalIndicators(data.price_history,
                                                   data.reading, draw.adx)
        current_price == data.reading.current_price
        asset_type == AssetTypeOf(symbol)
    IN  [indicators |-> indicators,
         signal |->
            IF indicators = NoIndicators THEN NoSignal
            ELSE IF asset_type = "stock"
            THEN StockTradingStrategy(symbol, indicators, current_price)
            ELSE IF asset_type = "crypto"
            THEN CryptoTradingStrategy(symbol, indicators, current_price)
            ELSE MemeCoinStrategy(symbol, indicators, current_price,
                                  draw.social_score, draw.whale_activity)]

\* =====================================================================
\* Part 2: TradeExecutionService (services/trade_execution_service.py) on
\* the portfolio, position and order rows of one user.  Amounts are exact
\* fractions [n, d] in lowest terms, so quantity = 100 / price and the
\* average price are computed without rounding.
\* =====================================================================

\* ---------------------------------------------------------------- bounds
MaxLots == 2           \* manual quantities are 10, 15, .. 5 * MaxLots
MaxSvcOrders == 2      \* order rows present when a new request may start
MaxCash == 10000       \* deposits stop once cash would exceed this

\* ------------------------------------------------------ program constants
GOOGLStart == 140      \* 142.50 * (1 + uniform(-0.05, 0.05))
AMZNStart == 150       \* 151.20 * (1 + uniform(-0.05, 0.05))
DemoPositionSize == 100
MaxPositionSize == 1000
MinConfidence == 70    \* min_confidence = 0.7, in percent

SvcSymbols == {"GOOGL", "AMZN"}
UnknownSymbol == "ZZZ"
\* prices the market thread moves a symbol to
SvcTickPrices(s) == IF s = "GOOGL" THEN {100, 120, 130} ELSE {AMZNStart}
EntryPrices == {100}
\* values of min_confidence a user posts to /auto-trading/settings, in
\* percent
MinConfidenceSettings == {30, 41, MinConfidence}
ManualQuantities == {5 * k : k \in 2..MaxLots}
Deposits == {10000}
Withdrawals == {5000}

\* ------------------------------------------------------------- fractions
RECURSIVE GCD(_, _)
GCD(a, b) == IF b = 0 THEN a ELSE GCD(b, a % b)

Abs(x) == IF x < 0 THEN 0 - x ELSE x

\* the fraction n / d (d # 0) in lowest terms with a positive denominator
Frac(n, d) ==
    LET g == GCD(Abs(n), Abs(d))
        sg == IF d < 0 THEN 0 - 1 ELSE 1
    IN  [n |-> sg * (n \div g), d |-> sg * (d \div g)]

R(k) == [n |-> k, d |-> 1]

\* the operations divide by common factors first, to keep the products small
RAdd(a, b) ==
    LET g == GCD(a.d, b.d)
    IN  Frac(a.n * (b.d \div g) + b.n * (a.d \div g), (a.d \div g) * b.d)

RSub(a, b) == RAdd(a, [n |-> 0 - b.n, d |-> b.d])

RMul(a, b) ==
    LET g1 == GCD(Abs(a.n), b.d)
        g2 == GCD(Abs(b.n), a.d)
    IN  Frac((a.n \div g1) * (b.n \div g2), (a.d \div g2) * (b.d \div g1))

RDiv(a, b) == RMul(a, Frac(b.d, b.n))

RLt(a, b) ==
    LET g == GCD(a.d, b.d)
    IN  a.n * (b.d \div g) < b.n * (a.d \div g)

RLe(a, b) ==
    LET g == GCD(a.d, b.d)
    IN  a.n * (b.d \div g) <= b.n * (a.d \div g)

\* ------------------------------------------------------------------ rows
\* the rows of one user: the Portfolio columns and the Position and Order
\* tables
Book(cash, total, realized, pos, ord) ==
    [cash_balance |-> cash, total_value |-> total, realized_pnl |-> realized,
     positions |-> pos, orders |-> ord]

\* auth_service.register: Portfolio(cash_balance=0.0, total_value=0.0)
NewBook == Book(R(0), R(0), R(0), <<>>, <<>>)

SvcOk == [success |-> TRUE, error |-> "none"]
SvcFail(msg) == [success |-> FALSE, error |-> msg]

\* Position.query.filter_by(portfolio_id, symbol, is_active=True).first():
\* the index of the first such row, 0 when there is none
RECURSIVE FirstActiveFrom(_, _, _)
FirstActiveFrom(rows, symbol, i) ==
    IF i > Len(rows) THEN 0
    ELSE IF rows[i].symbol = symbol /\ rows[i].is_active THEN i
    ELSE FirstActiveFrom(rows, symbol, i + 1)

FirstActive(rows, symbol) == FirstActiveFrom(rows, symbol, 1)

\* sum of quantity * current_price over the active rows from index i on
RECURSIVE PositionsValueFrom(_, _)
PositionsValueFrom(rows, i) ==
    IF i > Len(rows) THEN R(0)
    ELSE RAdd(IF rows[i].is_active
              THEN RMul(rows[i].quantity, rows[i].current_price) ELSE R(0),
              PositionsValueFrom(rows, i + 1))

\* _update_portfolio_value, lines 303-315
UpdatePortfolioValue(b) ==
    [b EXCEPT !.total_value =
        RAdd(b.cash_balance, PositionsValueFrom(b.positions, 1))]

\* lines 57-75: the Order row of a call
OrderRow(symbol, side, quantity, price, automated) ==
    [symbol |-> symbol, side |-> side, quantity |-> quantity,
     price |-> price, status |-> "filled", is_automated |-> automated]

\* lines 134-145: the session is revalued and committed
Committed(b) ==
    [sess |-> UpdatePortfolioValue(b), db |-> UpdatePortfolioValue(b),
     result |-> SvcOk]

\* a return of success=False that leaves the session as the call made it
Returned(b, db, msg) == [sess |-> b, db |-> db, result |-> SvcFail(msg)]

\* lines 147-150: db.session.rollback() and success=False
RolledBack(db, msg) == [sess |-> db, db |-> db, result |-> SvcFail(msg)]

\* the buy branch with the average price overwritten by the last price
BuyBranchLastPrice(b, db, symbol, quantity, current_price) ==
    LET order_value == RMul(quantity, current_price)
        b1 == [b EXCEPT !.cash_balance = RSub(@, order_value)]
        idx == FirstActive(b1.positions, symbol)
    IN  IF idx # 0
        THEN LET position == b1.positions[idx]
                 total_quantity == RAdd(position.quantity, quantity)
             IN  IF total_quantity.n = 0
                 THEN RolledBack(db, "float division by zero")
                 ELSE Committed([b1 EXCEPT !.positions[idx] =
                        [position EXCEPT
                           !.average_price = current_price,
                           !.quantity = total_quantity,
                           !.current_price = current_price]])
        ELSE Committed([b1 EXCEPT !.positions = Append(@,
                 [symbol |-> symbol, quantity |-> quantity,
                  average_price |-> current_price,
                  current_price |-> current_price, is_active |-> TRUE])])

\* lines 78-107: the buy branch on the session b that holds the new order
BuyBranch(b, db, symbol, quantity, current_price) ==
    LET order_value == RMul(quantity, current_price)
        b1 == [b EXCEPT !.cash_balance = RSub(@, order_value)]
        idx == FirstActive(b1.positions, symbol)
    IN  IF idx # 0
        THEN LET position == b1.positions[idx]
                 total_value == RAdd(RMul(position.quantity,
                                          position.average_price),
                                     order_value)
                 total_quantity == RAdd(position.quantity, quantity)
             IN  IF total_quantity.n = 0
                 THEN RolledBack(db, "float division by zero")
                 ELSE Committed([b1 EXCEPT !.positions[idx] =
                        [position EXCEPT
                           !.average_price = RDiv(total_value,
                                                  total_quantity),
                           !.quantity = total_quantity,
                           !.current_price = current_price]])
        ELSE Committed([b1 EXCEPT !.positions = Append(@,
                 [symbol |-> symbol, quantity |-> quantity,
                  average_price |-> current_price,
                  current_price |-> current_price, is_active |-> TRUE])])

\* lines 109-132: the sell branch on the session b that holds the new order
SellBranch(b, db, symbol, quantity, current_price) ==
    LET order_value == RMul(quantity, current_price)
        b1 == [b EXCEPT !.cash_balance = RAdd(@, order_value)]
        idx == FirstActive(b1.positions, symbol)
    IN  IF idx # 0
        THEN LET position == b1.positions[idx] IN
             IF RLe(quantity, position.quantity)
             THEN LET left == RSub(position.quantity, quantity) IN
                  Committed([b1 EXCEPT !.positions[idx] =
                     [position EXCEPT
                        !.quantity = left,
                        !.current_price = current_price,
                        !.is_active = ~RLe(left, R(0))]])
             ELSE Returned(b1, db, "Insufficient position size")
        ELSE Returned(b1, db, "No position found to sell")

\* execute_market_order, lines 25-150, called with the session sess of the
\* request and the committed rows db: the session and the committed rows
\* after the call, and the result returned
ExecuteMarketOrder(sess, db, prices, symbol, side, quantity, automated) ==
    IF symbol \notin DOMAIN prices
    THEN Returned(sess, db, "Market data not available")
    ELSE
    LET current_price == R(prices[symbol])
        order_value == RMul(quantity, current_price)
    IN  IF side = "buy" /\ RLt(sess.cash_balance, order_value)
        THEN Returned(sess, db, "Insufficient funds")
        ELSE
        LET b == [sess EXCEPT !.orders = Append(@,
                     OrderRow(symbol, side, quantity, current_price,
                              automated))]
        IN  CASE side = "buy" ->
                   BuyBranch(b, db, symbol, quantity, current_price)
              [] side = "sell" ->
                   SellBranch(b, db, symbol, quantity, current_price)
              [] OTHER -> Committed(b)

\* ------------------------------------------------------------------ actions
SvcInit ==
    /\ svc_db = NewBook
    /\ svc_session = NewBook
    /\ svc_queue = <<>>
    /\ svc_pc = "idle"
    /\ svc_result = SvcFail("none")
    /\ svc_prices = [s \in SvcSymbols |->
                        IF s = "GOOGL" THEN GOOGLStart ELSE AMZNStart]
    /\ auto_enabled = FALSE
    /\ auto_min_confidence = MinConfidence
    /\ auto_max_position_size = <<MaxPositionSize>>

\* POST /execute-order: one execute_market_order call in a fresh session;
\* the session is removed when the request ends
ExecuteOrderCall(symbol, side, quantity) ==
    LET r == ExecuteMarketOrder(svc_db, svc_db, svc_prices, symbol, side,
                                R(quantity), FALSE)
    IN  /\ svc_pc = "idle"
        /\ Len(svc_db.orders) < MaxSvcOrders
        /\ svc_db' = r.db
        /\ svc_session' = r.db
        /\ svc_result' = r.result
        /\ op' = "execute_order"
        /\ UNCHANGED <<svc_queue, svc_pc, svc_prices, auto_enabled,
                   auto_max_position_size,
                   auto_min_confidence>>
        /\ UNCHANGED <<accounts, positions, trade_history, market_prices,
                       order_counter, result, raceVars,
                   svc_requests, aiVars, sigVars, depVars, botVars>>

ExecuteOrder ==
    \E symbol \in SvcSymbols \cup {UnknownSymbol}, side \in Sides,
       quantity \in ManualQuantities :
        ExecuteOrderCall(symbol, side, quantity)

\* get_trade_recommendations: at most one buy or sell recommendation per
\* symbol, in the order of the active_signals dict
\* The signal of a symbol is what generate_signal_for_asset returned for
\* some state of the market and some draw.
SignalsOf(symbol) ==
    {GenerateSignalForAsset(symbol,
                            [reading |-> reading,
                             price_history |-> MinSamples], draw).signal :
        reading \in StockReadings, draw \in Draws} \ {NoSignal}

Recommendations ==
    UNION {{[symbol |-> symbol, action |-> signal.signal,
             confidence |-> signal.confidence,
             current_price |-> current_price] :
               signal \in SignalsOf(symbol), current_price \in EntryPrices} :
           symbol \in SvcSymbols}

RecommendationLists ==
    {<<a>> : a \in Recommendations}
      \cup {l \in {<<a, b>> : a \in Recommendations,
                                    b \in Recommendations} :
                 l[1].symbol # l[2].symbol}

\* POST /auto-trading/execute: execute_automated_trades, lines 259-269
SweepBegin ==
    /\ svc_pc = "idle"
    /\ auto_enabled
    /\ Len(svc_db.orders) < MaxSvcOrders
    /\ \E recs \in RecommendationLists : svc_queue' = recs
    /\ svc_pc' = "sweep"
    /\ svc_session' = svc_db
    /\ op' = "sweep_begin"
    /\ UNCHANGED <<svc_db, svc_result, svc_prices, auto_enabled,
                   auto_max_position_size,
                   auto_min_confidence>>
    /\ UNCHANGED <<accounts, positions, trade_history, market_prices,
                   order_counter, result, raceVars,
                   svc_requests, aiVars, sigVars, depVars, botVars>>

\* lines 275-276: min(settings['max_position_size'], 100.0) /
\* rec['current_price'], for a max_position_size that is not None
SweepQuantity(rec) ==
    RDiv(R(IF auto_max_position_size[1] < DemoPositionSize
           THEN auto_max_position_size[1] ELSE DemoPositionSize),
         R(rec.current_price))

\* lines 271-291: one turn of the loop over the recommendations, with the
\* prices execute_market_order reads from the market data
SweepStepOn(prices) ==
    /\ svc_pc = "sweep"
    /\ svc_queue # <<>>
    /\ LET rec == Head(svc_queue) IN
       IF rec.confidence < auto_min_confidence
       THEN /\ UNCHANGED <<svc_session, svc_db, svc_result, svc_pc>>
            /\ svc_queue' = Tail(svc_queue)
            /\ op' = "sweep_skip"
       ELSE IF auto_max_position_size = <<>>
       THEN \* min(None, 100.0) raises TypeError at line 275; the handler
            \* of lines 299-301 around the loop returns success=False and
            \* the request's session is removed
            /\ svc_pc' = "idle"
            /\ svc_queue' = <<>>
            /\ svc_session' = svc_db
            /\ svc_result' = SvcFail("TypeError")
            /\ op' = "sweep_abort"
            /\ UNCHANGED svc_db
       ELSE LET r == ExecuteMarketOrder(svc_session, svc_db, prices,
                                        rec.symbol, rec.action,
                                        SweepQuantity(rec), TRUE)
            IN  /\ svc_session' = r.sess
                /\ svc_db' = r.db
                /\ svc_result' = r.result
                /\ svc_queue' = Tail(svc_queue)
                /\ op' = "sweep_call"
                /\ UNCHANGED svc_pc
    /\ UNCHANGED <<svc_prices, auto_enabled, auto_max_position_size,
                   auto_min_confidence>>
    /\ UNCHANGED <<accounts, positions, trade_history, market_prices,
                   order_counter, result, raceVars,
                   svc_requests, aiVars, sigVars, depVars, botVars>>

SweepStep == SweepStepOn(svc_prices)

\* lines 293-297: the sweep returns and the request's session is removed
SweepEnd ==
    /\ svc_pc = "sweep"
    /\ svc_queue = <<>>
    /\ svc_pc' = "idle"
    /\ svc_session' = svc_db
    /\ op' = "sweep_end"
    /\ UNCHANGED <<svc_db, svc_queue, svc_result, svc_prices, auto_enabled,
                   auto_max_position_size,
                   auto_min_confidence>>
    /\ UNCHANGED <<accounts, positions, trade_history, market_prices,
                   order_counter, result, raceVars,
                   svc_requests, aiVars, sigVars, depVars, botVars>>

\* POST /auto-trading/toggle -> update_auto_trading_settings
ToggleAutoTrading ==
    /\ svc_pc = "idle"
    /\ auto_enabled' = ~auto_enabled
    /\ op' = "toggle"
    /\ UNCHANGED <<svc_db, svc_session, svc_queue, svc_pc, svc_result,
                   svc_prices, auto_max_position_size,
                   auto_min_confidence>>
    /\ UNCHANGED <<accounts, positions, trade_history, market_prices,
                   order_counter, result, raceVars,
                   svc_requests, aiVars, sigVars, depVars, botVars>>

\* FundManagementService.add_funds, lines 23-72
AddFunds ==
    /\ svc_pc = "idle"
    /\ \E amount \in Deposits :
          /\ RLe(RAdd(svc_db.cash_balance, R(amount)), R(MaxCash))
          /\ svc_db' = [svc_db EXCEPT
                           !.cash_balance = RAdd(@, R(amount)),
                           !.total_value = RAdd(@, R(amount))]
    /\ svc_session' = svc_db'
    /\ op' = "add_funds"
    /\ UNCHANGED <<svc_queue, svc_pc, svc_result, svc_prices, auto_enabled,
                   auto_max_position_size,
                   auto_min_confidence>>
    /\ UNCHANGED <<accounts, positions, trade_history, market_prices,
                   order_counter, result, raceVars,
                   svc_requests, aiVars, sigVars, depVars, botVars>>

\* withdraw_funds that takes the amount off the cash only
WithdrawFundsCashOnly ==
    /\ svc_pc = "idle"
    /\ \E amount \in Withdrawals :
          IF RLt(svc_db.cash_balance, R(amount))
          THEN /\ svc_db' = svc_db
               /\ op' = "withdraw_rejected"
          ELSE /\ svc_db' = [svc_db EXCEPT
                                !.cash_balance = RSub(@, R(amount))]
               /\ op' = "withdraw_funds"
    /\ svc_session' = svc_db'
    /\ UNCHANGED <<svc_queue, svc_pc, svc_result, svc_prices, auto_enabled,
                   auto_max_position_size,
                   auto_min_confidence>>
    /\ UNCHANGED <<accounts, positions, trade_history, market_prices,
                   order_counter, result, raceVars,
                   svc_requests, aiVars, sigVars, depVars, botVars>>

\* FundManagementService.withdraw_funds, lines 74-117
WithdrawFunds ==
    /\ svc_pc = "idle"
    /\ \E amount \in Withdrawals :
          IF RLt(svc_db.cash_balance, R(amount))
          THEN /\ svc_db' = svc_db
               /\ op' = "withdraw_rejected"
          ELSE /\ svc_db' = [svc_db EXCEPT
                                !.cash_balance = RSub(@, R(amount)),
                                !.total_value = RSub(@, R(amount))]
               /\ op' = "withdraw_funds"
    /\ svc_session' = svc_db'
    /\ UNCHANGED <<svc_queue, svc_pc, svc_result, svc_prices, auto_enabled,
                   auto_max_position_size,
                   auto_min_confidence>>
    /\ UNCHANGED <<accounts, positions, trade_history, market_prices,
                   order_counter, result, raceVars,
                   svc_requests, aiVars, sigVars, depVars, botVars>>

\* POST /auto-trading/settings -> update_auto_trading_settings, lines
\* 230-255, on the settings row of the user: setattr stores whatever value
\* the request body carries, null included
UpdateAutoTradingSettings ==
    /\ svc_pc = "idle"
    /\ \E value \in {<<MaxPositionSize>>, <<>>} :
          auto_max_position_size' = value
    /\ \E value \in MinConfidenceSettings : auto_min_confidence' = value
    /\ op' = "update_settings"
    /\ UNCHANGED <<svc_db, svc_session, svc_queue, svc_pc, svc_result,
                   svc_prices, auto_enabled>>
    /\ UNCHANGED <<accounts, positions, trade_history, market_prices,
                   order_counter, result, raceVars,
                   svc_requests, aiVars, sigVars, depVars, botVars>>

\* update_market_data of the market thread, for one symbol
UpdateMarketData ==
    /\ \E s \in SvcSymbols :
          \E p \in SvcTickPrices(s) :
             svc_prices' = [svc_prices EXCEPT ![s] = p]
    /\ op' = "update_market_data"
    /\ UNCHANGED <<svc_db, svc_session, svc_queue, svc_pc, svc_result,
                   auto_enabled,
                   auto_max_position_size,
                   auto_min_confidence>>
    /\ UNCHANGED <<accounts, positions, trade_history, market_prices,
                   order_counter, result, raceVars,
                   svc_requests, aiVars, sigVars, depVars, botVars>>

SvcNext ==
    \/ ExecuteOrder
    \/ SweepBegin
    \/ SweepStep
    \/ SweepEnd
    \/ ToggleAutoTrading
    \/ AddFunds
    \/ UpdateMarketData

\* ------------------------------------------------------------------
\* Two /execute-order requests served by two threads.  Each request has its
\* own db.session (a scoped session per thread) and execute_market_order
\* takes no lock and selects no row FOR UPDATE; the positions table has no
\* unique constraint.  A request is split where it reads and where it
\* commits: its pending rows are invisible to the other request until then.
NoPosition ==
    [symbol |-> "none", quantity |-> R(0), average_price |-> R(0),
     current_price |-> R(0), is_active |-> FALSE]

IdleRequest ==
    [pc |-> "idle", symbol |-> "none", quantity |-> R(0),
     current_price |-> R(0), balance |-> R(0), idx |-> 0,
     position |-> NoPosition, result |-> SvcFail("none")]

SvcRaceInit == svc_requests = [t \in ThreadIds |-> IdleRequest]

InFlight == {t \in ThreadIds : svc_requests[t].pc # "idle"}

\* lines 31-54: the portfolio is loaded, the price read, the funds checked
SvcRaceBegin(t, symbol, quantity) ==
    LET current_price == R(svc_prices[symbol])
        order_value == RMul(R(quantity), current_price)
    IN  /\ svc_requests[t].pc = "idle"
        /\ svc_pc = "idle"
        /\ Len(svc_db.orders) + Cardinality(InFlight) < MaxSvcOrders
        /\ svc_requests' = [svc_requests EXCEPT ![t] =
              IF RLt(svc_db.cash_balance, order_value)
              THEN [IdleRequest EXCEPT
                      !.result = SvcFail("Insufficient funds")]
              ELSE [pc |-> "query", symbol |-> symbol,
                    quantity |-> R(quantity),
                    current_price |-> current_price,
                    balance |-> svc_db.cash_balance, idx |-> 0,
                    position |-> NoPosition, result |-> SvcFail("none")]]
        /\ op' = "race_begin"
        /\ UNCHANGED <<svc_db, svc_session, svc_queue, svc_pc, svc_result,
                       svc_prices, auto_enabled,
                   auto_max_position_size,
                   auto_min_confidence>>
        /\ UNCHANGED <<accounts, positions, trade_history, market_prices,
                       order_counter, result, raceVars, aiVars, sigVars, depVars, botVars>>

\* lines 57-87: the order is added, the balance debited in the session and
\* the active position of the symbol looked up among the committed rows
SvcRaceQuery(t) ==
    LET r == svc_requests[t]
        idx == FirstActive(svc_db.positions, r.symbol)
    IN
    /\ r.pc = "query"
    /\ svc_requests' = [svc_requests EXCEPT ![t] =
          [r EXCEPT !.pc = "commit",
                    !.balance = RSub(@, RMul(r.quantity, r.current_price)),
                    !.idx = idx,
                    !.position = IF idx # 0 THEN svc_db.positions[idx]
                                 ELSE NoPosition]]
    /\ op' = "race_query"
    /\ UNCHANGED <<svc_db, svc_session, svc_queue, svc_pc, svc_result,
                   svc_prices, auto_enabled,
                   auto_max_position_size,
                   auto_min_confidence>>
    /\ UNCHANGED <<accounts, positions, trade_history, market_prices,
                   order_counter, result, raceVars, aiVars, sigVars, depVars, botVars>>

\* lines 89-107 and 134-137: the position found is updated from the values
\* the request loaded, or a new row is added; the rows of the request are
\* written and committed
SvcRaceCommit(t) ==
    LET r == svc_requests[t]
        order_value == RMul(r.quantity, r.current_price)
        rows ==
            IF r.idx # 0
            THEN LET position == r.position
                     total_value == RAdd(RMul(position.quantity,
                                              position.average_price),
                                         order_value)
                     total_quantity == RAdd(position.quantity, r.quantity)
                 IN  [svc_db.positions EXCEPT ![r.idx] =
                        [position EXCEPT
                           !.average_price = RDiv(total_value,
                                                  total_quantity),
                           !.quantity = total_quantity,
                           !.current_price = r.current_price]]
            ELSE Append(svc_db.positions,
                   [symbol |-> r.symbol, quantity |-> r.quantity,
                    average_price |-> r.current_price,
                    current_price |-> r.current_price, is_active |-> TRUE])
    IN  /\ r.pc = "commit"
        /\ svc_db' = UpdatePortfolioValue(
              [svc_db EXCEPT
                 !.cash_balance = r.balance,
                 !.positions = rows,
                 !.orders = Append(@, OrderRow(r.symbol, "buy", r.quantity,
                                               r.current_price, FALSE))])
        /\ svc_session' = svc_db'
        /\ svc_requests' = [svc_requests EXCEPT ![t] =
              [IdleRequest EXCEPT !.result = SvcOk]]
        /\ op' = "race_commit"
        /\ UNCHANGED <<svc_queue, svc_pc, svc_result, svc_prices,
                       auto_enabled,
                   auto_max_position_size,
                   auto_min_confidence>>
        /\ UNCHANGED <<accounts, positions, trade_history, market_prices,
                       order_counter, result, raceVars, aiVars, sigVars, depVars, botVars>>

SvcRaceNext ==
    \/ \E t \in ThreadIds, symbol \in SvcSymbols,
          quantity \in ManualQuantities : SvcRaceBegin(t, symbol, quantity)
    \/ \E t \in ThreadIds : SvcRaceQuery(t)
    \/ \E t \in ThreadIds : SvcRaceCommit(t)
    \/ AddFunds
    \/ UpdateMarketData

\* =====================================================================
\* Part 3: AITradingEngine (services/ai_trading_engine.py): the daily
\* trading session of one user on the Portfolio, Position and Trade rows
\* of models/trading.py.  Amounts are exact fractions.  The scheduler
\* thread runs the 09:30 session and the price updates one after the
\* other, so a session is not interleaved with a price update.  Two
\* consecutive days are followed.
\* =====================================================================

\* ---------------------------------------------------------------- bounds
MaxAiCash == 1000           \* deposits stop once cash would exceed this

\* ------------------------------------------------------ program constants
AiSeedPrice == 100          \* Asset.current_price when the run starts
CommissionDivisor == 1000   \* commission = position_value * 0.001
StopLossPercent == 5        \* stop_loss_percent = 0.05
TakeProfitPercent == 15     \* take_profit_percent = 0.15
MaxOpportunities == 5       \* opportunities[:5]
MaxTradesPerDay == 5        \* plan.max_trades_per_day of the free trial
DefaultMaxOpenPositions == 10
AiMinConfidence == 75       \* min_confidence_threshold = 0.75, in percent

AiAssets == {"AAPL", "MSFT"}
\* prices the feed moves an asset to
AiTickPrices(asset) == IF asset = "AAPL" THEN {40, 120} ELSE {AiSeedPrice}
AiDeposits == {1000}
SignalTypes == {"BUY", "SELL"}
AiConfidences == {80}
\* values update_trading_settings is called with; it validates none
SettingsUpdates ==
    {[max_position_size |-> Frac(1, 10),
      max_open_positions |-> DefaultMaxOpenPositions],
     [max_position_size |-> R(1),
      max_open_positions |-> DefaultMaxOpenPositions],
     [max_position_size |-> Frac(1, 10), max_open_positions |-> 1]}

\* auth_service.register: TradingSettings(max_position_size=0.10,
\* daily_loss_limit=0.05, min_confidence_threshold=0.75)
DefaultSettings ==
    [max_position_size |-> Frac(1, 10), daily_loss_limit |-> Frac(1, 20),
     min_confidence_threshold |-> AiMinConfidence,
     max_open_positions |-> DefaultMaxOpenPositions,
     stop_loss_enabled |-> TRUE]

\* the opportunities _find_trading_opportunities returns: one per asset at
\* most, BUY or SELL, of a confidence at or above the threshold, in the
\* order of their scores
Opportunities == [asset : AiAssets, signal_type : SignalTypes,
                  confidence : AiConfidences]

OpportunityLists ==
    {<<a>> : a \in Opportunities}
      \cup {l \in {<<a, b>> : a \in Opportunities, b \in Opportunities} :
                 l[1].asset # l[2].asset}

NoOpportunity == [asset |-> "none", signal_type |-> "HOLD", confidence |-> 0]

\* the rows a session works on
AiBook(portfolio, pos, trades) ==
    [portfolio |-> portfolio, positions |-> pos, trades |-> trades]

\* ------------------------------------------------------------- the rows
\* the open rows of a Position table
OpenPositionRows(pos) == {i \in 1..Len(pos) : pos[i].is_open}

\* Position.query.filter_by(portfolio_id, asset_id, is_open=True).first()
ExistingPosition(pos, asset) ==
    LET rows == {i \in OpenPositionRows(pos) : pos[i].asset = asset}
    IN  IF rows = {} THEN 0
        ELSE CHOOSE i \in rows : \A j \in rows : i <= j

\* Subscription.trades_this_month: one more for every _execute_trade
TradesThisMonth(trades) ==
    Cardinality({i \in 1..Len(trades) : trades[i].strategy = "AI_ENSEMBLE"})

\* Position.update_market_value at the price of the asset
UpdateMarketValue(position, price) ==
    LET market_value == RMul(position.quantity, R(price))
        cost_basis == RMul(position.quantity, position.entry_price)
    IN  [position EXCEPT !.current_price = R(price),
                         !.market_value = market_value,
                         !.unrealized_pnl = RSub(market_value, cost_basis)]

\* ------------------------------------------------------------ the session
\* _check_daily_loss_limit, lines 727-749: the pnl of today's executed
\* trades against total_value * daily_loss_limit
RECURSIVE TodayPnlFrom(_, _)
TodayPnlFrom(trades, i) ==
    IF i > Len(trades) THEN R(0)
    ELSE RAdd(IF trades[i].today /\ trades[i].status = "executed"
              THEN trades[i].pnl ELSE R(0),
              TodayPnlFrom(trades, i + 1))

CheckDailyLossLimit(b, settings) ==
    LET loss_limit == RMul(b.portfolio.total_value, settings.daily_loss_limit)
    IN  RLt(TodayPnlFrom(b.trades, 1), RSub(R(0), loss_limit))

\* _should_execute_trade without the count of the open positions
ShouldExecuteTradeUncounted(opportunity, b, settings) ==
    /\ opportunity.confidence >= settings.min_confidence_threshold
    /\ ExistingPosition(b.positions, opportunity.asset) = 0
    /\ ~RLt(b.portfolio.cash_balance,
            RMul(b.portfolio.total_value, settings.max_position_size))
    /\ TradesThisMonth(b.trades) < MaxTradesPerDay

\* _should_execute_trade, lines 538-578
ShouldExecuteTrade(opportunity, b, settings) ==
    /\ opportunity.confidence >= settings.min_confidence_threshold
    /\ ExistingPosition(b.positions, opportunity.asset) = 0
    /\ Cardinality(OpenPositionRows(b.positions)) < settings.max_open_positions
    /\ ~RLt(b.portfolio.cash_balance,
            RMul(b.portfolio.total_value, settings.max_position_size))
    /\ TradesThisMonth(b.trades) < MaxTradesPerDay

\* _execute_trade, lines 580-655
AiExecuteTrade(opportunity, b, settings, prices) ==
    LET position_value == RMul(b.portfolio.total_value,
                               settings.max_position_size)
        current_price == R(prices[opportunity.asset])
        quantity == RDiv(position_value, current_price)
        commission == RDiv(position_value, R(CommissionDivisor))
        trade == [asset |-> opportunity.asset,
                  trade_type |-> opportunity.signal_type,
                  quantity |-> quantity, price |-> current_price,
                  total_value |-> position_value, commission |-> commission,
                  pnl |-> R(0), strategy |-> "AI_ENSEMBLE",
                  status |-> "executed", today |-> TRUE]
        position == [asset |-> opportunity.asset, quantity |-> quantity,
                     entry_price |-> current_price,
                     current_price |-> current_price,
                     market_value |-> position_value,
                     unrealized_pnl |-> R(0),
                     stop_loss_price |->
                        RDiv(RMul(current_price, R(100 - StopLossPercent)),
                             R(100)),
                     take_profit_price |->
                        RDiv(RMul(current_price, R(100 + TakeProfitPercent)),
                             R(100)),
                     is_open |-> TRUE]
    IN  IF opportunity.signal_type = "BUY"
        THEN AiBook([b.portfolio EXCEPT
                        !.cash_balance =
                            RSub(@, RAdd(position_value, commission)),
                        !.invested_value = RAdd(@, position_value)],
                    Append(b.positions, position),
                    Append(b.trades, trade))
        ELSE AiBook(b.portfolio, b.positions, Append(b.trades, trade))

\* _close_position, lines 686-725, of the open row i
ClosePosition(b, i, prices, reason) ==
    LET position == b.positions[i]
        current_price == R(prices[position.asset])
        total_value == RMul(position.quantity, current_price)
        commission == RDiv(total_value, R(CommissionDivisor))
        trade == [asset |-> position.asset, trade_type |-> "SELL",
                  quantity |-> position.quantity, price |-> current_price,
                  total_value |-> total_value, commission |-> commission,
                  pnl |-> RSub(position.unrealized_pnl, commission),
                  strategy |-> reason, status |-> "executed",
                  today |-> TRUE]
        closed == [UpdateMarketValue(position, prices[position.asset])
                      EXCEPT !.is_open = FALSE]
    IN  AiBook([b.portfolio EXCEPT
                   !.cash_balance = RAdd(@, RSub(total_value, commission)),
                   !.invested_value = RSub(@, closed.market_value)],
               [b.positions EXCEPT ![i] = closed],
               Append(b.trades, trade))

\* _manage_existing_positions, lines 657-684, from row i on; sells are the
\* assets whose analysis says SELL with a confidence above 0.8
RECURSIVE ManagePositionsFrom(_, _, _, _, _)
ManagePositionsFrom(b, i, settings, prices, sells) ==
    IF i > Len(b.positions) THEN b
    ELSE IF ~b.positions[i].is_open
    THEN ManagePositionsFrom(b, i + 1, settings, prices, sells)
    ELSE
    LET position == UpdateMarketValue(b.positions[i],
                                      prices[b.positions[i].asset])
        b1 == [b EXCEPT !.positions[i] = position]
        b2 == IF settings.stop_loss_enabled
                   /\ RLe(position.current_price, position.stop_loss_price)
              THEN ClosePosition(b1, i, prices, "CLOSE_STOP_LOSS")
              ELSE IF RLe(position.take_profit_price, position.current_price)
              THEN ClosePosition(b1, i, prices, "CLOSE_TAKE_PROFIT")
              ELSE IF position.asset \in sells
              THEN ClosePosition(b1, i, prices, "CLOSE_AI_SIGNAL")
              ELSE b1
    IN  ManagePositionsFrom(b2, i + 1, settings, prices, sells)

\* the sum of market_value over the open rows from row i on
RECURSIVE MarketValueFrom(_, _)
MarketValueFrom(pos, i) ==
    IF i > Len(pos) THEN R(0)
    ELSE RAdd(IF pos[i].is_open THEN pos[i].market_value ELSE R(0),
              MarketValueFrom(pos, i + 1))

\* Portfolio.calculate_portfolio_value, models/trading.py lines 171-190
CalculatePortfolioValue(b) ==
    LET invested == MarketValueFrom(b.positions, 1) IN
    [b EXCEPT !.portfolio.invested_value = invested,
              !.portfolio.total_value =
                  RAdd(b.portfolio.cash_balance, invested)]

\* ------------------------------------------------------------------ actions
CurrentBook == AiBook(ai_portfolio, ai_positions, ai_trades)

AiInit ==
    /\ ai_portfolio = [cash_balance |-> R(0), invested_value |-> R(0),
                       total_value |-> R(0)]
    /\ ai_positions = <<>>
    /\ ai_trades = <<>>
    /\ ai_queue = <<>>
    /\ ai_pc = "idle"
    /\ ai_settings = DefaultSettings
    /\ ai_asset_prices = [a \in AiAssets |-> AiSeedPrice]
    /\ ai_last = [opportunity |-> NoOpportunity, executed |-> FALSE]
    /\ ai_clock = "day1"
    /\ ai_day_open = [a \in AiAssets |-> AiSeedPrice]

\* opportunities[:5]
FirstOpportunities(opportunities) ==
    SubSeq(opportunities, 1,
           IF Len(opportunities) < MaxOpportunities
           THEN Len(opportunities) ELSE MaxOpportunities)

\* _daily_trading_session and lines 99-115 of
\* _execute_user_trading_session: the session of the day starts unless the
\* user cannot trade or the daily loss limit is reached
AiSessionBegin ==
    /\ ai_pc = "idle"
    /\ ai_clock \in {"day1", "day2"}
    /\ IF ~RLt(R(0), ai_portfolio.cash_balance)
       THEN /\ ai_clock' = IF ai_clock = "day1" THEN "day1_done"
                           ELSE "day2_done"
            /\ UNCHANGED <<ai_queue, ai_pc>>
            /\ op' = "ai_cannot_trade"
       ELSE IF CheckDailyLossLimit(CurrentBook, ai_settings)
       THEN /\ ai_clock' = IF ai_clock = "day1" THEN "day1_done"
                           ELSE "day2_done"
            /\ UNCHANGED <<ai_queue, ai_pc>>
            /\ op' = "ai_loss_limit"
       ELSE /\ \E opportunities \in OpportunityLists :
                 ai_queue' = FirstOpportunities(opportunities)
            /\ ai_pc' = "trading"
            /\ UNCHANGED ai_clock
            /\ op' = "ai_session"
    /\ UNCHANGED <<ai_portfolio, ai_positions, ai_trades, ai_settings,
                   ai_asset_prices, ai_last, ai_day_open>>
    /\ UNCHANGED <<accounts, positions, trade_history, market_prices,
                   order_counter, result, raceVars, svcVars,
                   sigVars, depVars, botVars>>

\* lines 120-122: one turn of the loop over the opportunities
AiSessionStep ==
    /\ ai_pc = "trading"
    /\ ai_queue # <<>>
    /\ LET opportunity == Head(ai_queue) IN
       IF ShouldExecuteTrade(opportunity, CurrentBook, ai_settings)
       THEN LET b == AiExecuteTrade(opportunity, CurrentBook, ai_settings,
                                    ai_asset_prices)
            IN  /\ ai_portfolio' = b.portfolio
                /\ ai_positions' = b.positions
                /\ ai_trades' = b.trades
                /\ ai_last' = [opportunity |-> opportunity,
                               executed |-> TRUE]
                /\ op' = "ai_trade"
       ELSE /\ UNCHANGED <<ai_portfolio, ai_positions, ai_trades>>
            /\ ai_last' = [opportunity |-> opportunity, executed |-> FALSE]
            /\ op' = "ai_refuse"
    /\ ai_queue' = Tail(ai_queue)
    /\ UNCHANGED <<ai_pc, ai_settings, ai_asset_prices, ai_clock,
                   ai_day_open>>
    /\ UNCHANGED <<accounts, positions, trade_history, market_prices,
                   order_counter, result, raceVars, svcVars,
                   sigVars, depVars, botVars>>

\* lines 124-133: the open positions are managed, the portfolio is valued
\* and the session is committed
AiSessionEnd ==
    /\ ai_pc = "trading"
    /\ ai_queue = <<>>
    /\ \E sells \in SUBSET AiAssets :
          LET b == CalculatePortfolioValue(
                      ManagePositionsFrom(CurrentBook, 1, ai_settings,
                                          ai_asset_prices, sells))
          IN  /\ ai_portfolio' = b.portfolio
              /\ ai_positions' = b.positions
              /\ ai_trades' = b.trades
    /\ ai_pc' = "idle"
    /\ ai_clock' = IF ai_clock = "day1" THEN "day1_done" ELSE "day2_done"
    /\ op' = "ai_session_end"
    /\ UNCHANGED <<ai_queue, ai_settings, ai_asset_prices, ai_last,
                   ai_day_open>>
    /\ UNCHANGED <<accounts, positions, trade_history, market_prices,
                   order_counter, result, raceVars, svcVars,
                   sigVars, depVars, botVars>>

\* _update_market_data, lines 778-811: the price of an asset with an open
\* position moves and its open positions are valued at it
AiUpdateMarketData ==
    /\ ai_pc = "idle"
    /\ \E asset \in AiAssets :
        \E price \in AiTickPrices(asset) :
          /\ ExistingPosition(ai_positions, asset) # 0
          /\ ai_asset_prices' = [ai_asset_prices EXCEPT ![asset] = price]
          /\ ai_positions' =
                [i \in 1..Len(ai_positions) |->
                    IF ai_positions[i].is_open
                         /\ ai_positions[i].asset = asset
                    THEN UpdateMarketValue(ai_positions[i], price)
                    ELSE ai_positions[i]]
    /\ op' = "ai_update_market_data"
    /\ UNCHANGED <<ai_portfolio, ai_trades, ai_queue, ai_pc, ai_settings,
                   ai_last, ai_clock, ai_day_open>>
    /\ UNCHANGED <<accounts, positions, trade_history, market_prices,
                   order_counter, result, raceVars, svcVars,
                   sigVars, depVars, botVars>>

\* midnight (UTC) after the first day: no trade is of today any more, and
\* the day begins at the prices then current
AiNewDay ==
    /\ ai_pc = "idle"
    /\ ai_clock \in {"day1", "day1_done"}
    /\ ai_clock' = "day2"
    /\ ai_day_open' = ai_asset_prices
    /\ ai_trades' = [i \in 1..Len(ai_trades) |->
                        [ai_trades[i] EXCEPT !.today = FALSE]]
    /\ op' = "ai_new_day"
    /\ UNCHANGED <<ai_portfolio, ai_positions, ai_queue, ai_pc, ai_settings,
                   ai_asset_prices, ai_last>>
    /\ UNCHANGED <<accounts, positions, trade_history, market_prices,
                   order_counter, result, raceVars, svcVars,
                   sigVars, depVars, botVars>>

\* FundManagementService.add_funds on the portfolio of the user
AiAddFunds ==
    /\ ai_pc = "idle"
    /\ \E amount \in AiDeposits :
          /\ RLe(RAdd(ai_portfolio.cash_balance, R(amount)), R(MaxAiCash))
          /\ ai_portfolio' = [ai_portfolio EXCEPT
                                 !.cash_balance = RAdd(@, R(amount)),
                                 !.total_value = RAdd(@, R(amount))]
    /\ op' = "ai_add_funds"
    /\ UNCHANGED <<ai_positions, ai_trades, ai_queue, ai_pc, ai_settings,
                   ai_asset_prices, ai_last, ai_clock, ai_day_open>>
    /\ UNCHANGED <<accounts, positions, trade_history, market_prices,
                   order_counter, result, raceVars, svcVars,
                   sigVars, depVars, botVars>>

\* AuthService.update_trading_settings, lines 325-355
AiUpdateSettings ==
    /\ ai_pc = "idle"
    /\ \E update \in SettingsUpdates :
          ai_settings' =
             [ai_settings EXCEPT
                !.max_position_size = update.max_position_size,
                !.max_open_positions = update.max_open_positions]
    /\ op' = "ai_update_settings"
    /\ UNCHANGED <<ai_portfolio, ai_positions, ai_trades, ai_queue, ai_pc,
                   ai_asset_prices, ai_last, ai_clock, ai_day_open>>
    /\ UNCHANGED <<accounts, positions, trade_history, market_prices,
                   order_counter, result, raceVars, svcVars,
                   sigVars, depVars, botVars>>

AiNext ==
    \/ AiSessionBegin
    \/ AiSessionStep
    \/ AiSessionEnd
    \/ AiUpdateMarketData
    \/ AiNewDay
    \/ AiAddFunds
    \/ AiUpdateSettings

\* =====================================================================
\* Part 4: AdvancedTradingEngine.generate_stock_signals
\* (services/advanced_trading_engine.py): the signal of a stock symbol is
\* chosen among what the three stock strategies return.  Confidences are in
\* percent.
\* =====================================================================
StockSymbols == {"AAPL", "GOOGL"}

\* a strategy returned None; also the entry of a symbol without a signal
None == [strategy |-> "none", signal |-> "hold", confidence |-> 0]

Signal(strategy, signal, confidence) ==
    [strategy |-> strategy, signal |-> signal, confidence |-> confidence]

\* whether the entry and the exit conditions of a strategy hold on the
\* indicators of the symbol
Conditions == [entry : BOOLEAN, exit : BOOLEAN]

\* momentum_trading_strategy, lines 329-381
MomentumTradingStrategy(c) ==
    IF c.entry THEN Signal("momentum_trading", "buy", 80)
    ELSE IF c.exit THEN Signal("momentum_trading", "sell", 70)
    ELSE None

\* mean_reversion_strategy, lines 383-435
MeanReversionStrategy(c) ==
    IF c.entry THEN Signal("mean_reversion", "buy", 75)
    ELSE IF c.exit THEN Signal("mean_reversion", "sell", 60)
    ELSE None

\* trend_following_strategy, lines 437-489
TrendFollowingStrategy(c) ==
    IF c.entry THEN Signal("trend_following", "buy", 85)
    ELSE IF c.exit THEN Signal("trend_following", "sell", 70)
    ELSE None

\* A variant of the loop below that replaces the best signal also on an
\* equal confidence.
BestSignalLatest(candidates) ==
    LET best[i \in 0..Len(candidates)] ==
            IF i = 0 THEN None
            ELSE IF candidates[i] # None
                      /\ candidates[i].confidence >= best[i - 1].confidence
            THEN candidates[i]
            ELSE best[i - 1]
    IN  best[Len(candidates)]

\* lines 935-945: best[i] is best_signal after the i-th strategy of the
\* loop; best_confidence is its confidence, 0 while best_signal is None
BestSignal(candidates) ==
    LET best[i \in 0..Len(candidates)] ==
            IF i = 0 THEN None
            ELSE IF candidates[i] # None
                      /\ candidates[i].confidence > best[i - 1].confidence
            THEN candidates[i]
            ELSE best[i - 1]
    IN  best[Len(candidates)]

SigInit ==
    /\ active_signals = [s \in StockSymbols |-> None]
    /\ sig_call = [symbol |-> "none", candidates |-> <<None, None, None>>]

\* generate_stock_signals, lines 917-954, for one symbol: without market
\* data or indicators it returns before any strategy runs
GenerateStockSignals ==
    \E symbol \in StockSymbols, has_data \in BOOLEAN,
       c \in [1..3 -> Conditions] :
        LET candidates ==
                IF has_data
                THEN <<MomentumTradingStrategy(c[1]),
                       MeanReversionStrategy(c[2]),
                       TrendFollowingStrategy(c[3])>>
                ELSE <<None, None, None>>
            best_signal == BestSignal(candidates)
        IN  /\ active_signals' =
                  IF best_signal # None
                  THEN [active_signals EXCEPT ![symbol] = best_signal]
                  ELSE active_signals
            /\ sig_call' = [symbol |-> symbol, candidates |-> candidates]
            /\ op' = "generate_stock_signals"
            /\ UNCHANGED <<accounts, positions, trade_history,
                           market_prices, order_counter, result, raceVars,
                           svcVars, aiVars, depVars, botVars>>

SigNext == GenerateStockSignals

\* =====================================================================
\* Part 5: DeploymentTradingEngine: the market data cache, the background
\* market thread (update_market_data), the background signal thread
\* (generate_all_signals) and get_trading_signals.  Each history of the
\* cache is kept as its length and its reading; signal_history is left
\* out.
\* =====================================================================
MaxTicks == 1          \* calls of update_market_data in one run
HistoryLimit == 200    \* update_market_data keeps the last 200 samples
TopSignals == 10       \* get_trading_signals returns signals[:10]

DepSymbols == {"AAPL", "BTC-USD", "DOGE-USD"}
\* the keys of market_data_cache in the order initialize_market_data
\* inserts them
DepOrder == <<"AAPL", "BTC-USD", "DOGE-USD">>

ReadingsOf(symbol) ==
    IF AssetTypeOf(symbol) = "stock" THEN StockReadings
    ELSE IF AssetTypeOf(symbol) = "crypto" THEN CryptoReadings
    ELSE MemeReadings

InitialReading(symbol) ==
    IF AssetTypeOf(symbol) = "meme_coin" THEN QuietReading
    ELSE IF AssetTypeOf(symbol) = "crypto" THEN GoldenCross
    ELSE FlatReading

\* the draws that matter for a symbol: only the stock strategy reads adx,
\* only the meme coin strategy draws social_score and whale_activity
DrawsOf(symbol) ==
    IF AssetTypeOf(symbol) = "meme_coin"
    THEN {d \in Draws : d.adx = 20}
    ELSE IF AssetTypeOf(symbol) = "crypto"
    THEN {d \in Draws : d.adx = 20 /\ d.social_score = 5
                                    /\ d.whale_activity = 5}
    ELSE {d \in Draws : d.social_score = 5 /\ d.whale_activity = 5}

\* ------------------------------------------------ calculate_rsi and
\* calculate_bollinger_bands, on a price list given sample by sample.
\* Prices are whole numbers; the results are exact fractions, except the
\* standard deviation, which is the square root cut to hundredths.
MaxAppended == 5       \* samples added to the 50 the list starts with
RsiPeriod == 14
BollingerPeriod == 20
StdDev == 2
PriceLevels == {98, 100, 103}

RECURSIVE SeqSum(_)
SeqSum(s) == IF s = <<>> THEN 0 ELSE Head(s) + SeqSum(Tail(s))

\* s[-n:] for n <= len(s)
LastN(s, n) == SubSeq(s, Len(s) - n + 1, Len(s))

CalculateRsi(prices) ==
    IF Len(prices) < RsiPeriod + 1 THEN R(50)
    ELSE
    LET change(i) == prices[i + 1] - prices[i]
        gains == [i \in 1..(Len(prices) - 1) |->
                     IF change(i) > 0 THEN change(i) ELSE 0]
        losses == [i \in 1..(Len(prices) - 1) |->
                      IF change(i) > 0 THEN 0 ELSE Abs(change(i))]
        avg_gain == Frac(SeqSum(LastN(gains, RsiPeriod)), RsiPeriod)
        avg_loss == Frac(SeqSum(LastN(losses, RsiPeriod)), RsiPeriod)
        rs == RDiv(avg_gain, avg_loss)
    IN  IF Len(gains) < RsiPeriod THEN R(50)
        ELSE IF avg_loss.n = 0 THEN R(100)
        ELSE RSub(R(100), RDiv(R(100), RAdd(R(1), rs)))

\* variance ** 0.5, cut to hundredths
Sqrt(variance) ==
    LET x == (variance.n * 10000) \div variance.d
    IN  Frac(CHOOSE r \in 0..1000 :
                 r * r <= x /\ (r + 1) * (r + 1) > x, 100)

\* (price - sma) ** 2 for the prices of the window, as whole numbers: with
\* sma = total / period the squared deviation is
\* (price * period - total) ** 2 / period ** 2
SquaredDeviations(recent_prices, total) ==
    [i \in DOMAIN recent_prices |->
        (recent_prices[i] * BollingerPeriod - total)
            * (recent_prices[i] * BollingerPeriod - total)]

\* A variant of the bands below that returns them lowest first.
CalculateBollingerBandsSwapped(prices) ==
    LET avg == Frac(SeqSum(prices), Len(prices))
        recent_prices == LastN(prices, BollingerPeriod)
        total == SeqSum(recent_prices)
        sma == Frac(total, BollingerPeriod)
        variance ==
            Frac(SeqSum(SquaredDeviations(recent_prices, total)),
                 BollingerPeriod * BollingerPeriod * BollingerPeriod)
        std == Sqrt(variance)
    IN  IF Len(prices) < BollingerPeriod
        THEN [upper |-> RMul(avg, Frac(98, 100)), middle |-> avg,
              lower |-> RMul(avg, Frac(102, 100))]
        ELSE [upper |-> RSub(sma, RMul(std, R(StdDev))), middle |-> sma,
              lower |-> RAdd(sma, RMul(std, R(StdDev)))]

CalculateBollingerBands(prices) ==
    LET avg == Frac(SeqSum(prices), Len(prices))
        recent_prices == LastN(prices, BollingerPeriod)
        total == SeqSum(recent_prices)
        sma == Frac(total, BollingerPeriod)
        variance ==
            Frac(SeqSum(SquaredDeviations(recent_prices, total)),
                 BollingerPeriod * BollingerPeriod * BollingerPeriod)
        std == Sqrt(variance)
    IN  IF Len(prices) < BollingerPeriod
        THEN [upper |-> RMul(avg, Frac(102, 100)), middle |-> avg,
              lower |-> RMul(avg, Frac(98, 100))]
        ELSE [upper |-> RAdd(sma, RMul(std, R(StdDev))), middle |-> sma,
              lower |-> RSub(sma, RMul(std, R(StdDev)))]

\* the shortest list calculate_technical_indicators accepts (line 232), of
\* equal prices
InitialSamples == [i \in 1..MinSamples |-> 100]

NoSweep ==
    [s \in DepSymbols |-> [indicators |-> NoIndicators, signal |-> NoSignal]]

IdleThreads ==
    [ticks |-> 0,
     market |-> [pc |-> "idle", symbol |-> "none"],
     signal |-> [pc |-> "idle", symbol |-> "none", prices_live |-> FALSE,
                 prices |-> 0, volumes_live |-> FALSE, volumes |-> 0]]

DepInit ==
    /\ market_data_cache =
          [s \in DepSymbols |->
              [reading |-> InitialReading(s),
               price_history |-> HistoryLimit,
               volume_history |-> HistoryLimit]]
    /\ deployment_signals = <<>>
    /\ dep_threads = IdleThreads
    /\ dep_result = [sweep |-> NoSweep, before |-> <<>>, returned |-> <<>>,
                     samples |-> InitialSamples,
                     rsi |-> CalculateRsi(InitialSamples),
                     bands |-> CalculateBollingerBands(InitialSamples)]

\* A variant of the store below that keeps the signals in a list.
StoreSignalAppended(signals, signal) == Append(signals, signal)

\* line 381: self.active_signals[symbol] = signal, on a dict kept as the
\* sequence of its values in insertion order
StoreSignal(signals, signal) ==
    IF \E i \in DOMAIN signals : signals[i].symbol = signal.symbol
    THEN [i \in DOMAIN signals |->
             IF signals[i].symbol = signal.symbol THEN signal
             ELSE signals[i]]
    ELSE Append(signals, signal)

\* update_market_data, lines 189-221, as one step of the market thread
DepUpdateMarketData ==
    \E symbol \in DepSymbols :
    \E reading \in ReadingsOf(symbol) \ {market_data_cache[symbol].reading} :
        LET data == market_data_cache[symbol]
            price_history == data.price_history + 1
            volume_history == data.volume_history + 1
            trim == price_history > HistoryLimit
        IN  /\ dep_threads.ticks < MaxTicks
            /\ dep_threads.market.pc = "idle"
            /\ dep_threads.signal.pc = "idle"
            /\ market_data_cache' = [market_data_cache EXCEPT ![symbol] =
                   [reading |-> reading,
                    price_history |->
                        IF trim THEN Min(price_history, HistoryLimit)
                        ELSE price_history,
                    volume_history |->
                        IF trim THEN Min(volume_history, HistoryLimit)
                        ELSE volume_history]]
            /\ dep_threads' = [dep_threads EXCEPT !.ticks = @ + 1]
            /\ op' = "update_market_data"
            /\ UNCHANGED <<deployment_signals, dep_result>>
            /\ UNCHANGED <<accounts, positions, trade_history, market_prices,
                           order_counter, result, raceVars, svcVars, aiVars,
                           sigVars, botVars>>

\* generate_all_signals, lines 362-389, as one step of the signal thread
GenerateAllSignals ==
    \E d1 \in DrawsOf(DepOrder[1]), d2 \in DrawsOf(DepOrder[2]),
       d3 \in DrawsOf(DepOrder[3]) :
        LET draws == [s \in DepSymbols |->
                         IF s = DepOrder[1] THEN d1
                         ELSE IF s = DepOrder[2] THEN d2 ELSE d3]
            sweep == [s \in DepSymbols |->
                         GenerateSignalForAsset(s, market_data_cache[s],
                                                draws[s])]
            stored[i \in 0..Len(DepOrder)] ==
                IF i = 0 THEN deployment_signals
                ELSE IF sweep[DepOrder[i]].signal # NoSignal
                THEN StoreSignal(stored[i - 1], sweep[DepOrder[i]].signal)
                ELSE stored[i - 1]
        IN  /\ dep_threads.market.pc = "idle"
            /\ dep_threads.signal.pc = "idle"
            /\ deployment_signals' = stored[Len(DepOrder)]
            /\ dep_result' = [dep_result EXCEPT
                                 !.sweep = sweep,
                                 !.before = deployment_signals]
            /\ op' = "generate_all_signals"
            /\ UNCHANGED <<market_data_cache, dep_threads>>
            /\ UNCHANGED <<accounts, positions, trade_history, market_prices,
                           order_counter, result, raceVars, svcVars, aiVars,
                           sigVars, botVars>>

\* get_trading_signals, lines 635-642
GetTradingSignals ==
    /\ dep_result' = [dep_result EXCEPT !.returned =
           SubSeq(deployment_signals, 1,
                  Min(TopSignals, Len(deployment_signals)))]
    /\ op' = "get_trading_signals"
    /\ UNCHANGED <<market_data_cache, deployment_signals, dep_threads>>
    /\ UNCHANGED <<accounts, positions, trade_history, market_prices,
                           order_counter, result, raceVars, svcVars, aiVars,
                           sigVars, botVars>>

DepNext == DepUpdateMarketData \/ GenerateAllSignals \/ GetTradingSignals

\* ------------------------------------ the sweep on the engine's signals
\* execute_automated_trades fed by get_trading_signals of this engine.
\* A price of the cache, kept in 1/100000 of the base price, in dollars for
\* a base price of 100 dollars.
Dollars(price) == price \div 1000

DepPrices ==
    [s \in DepSymbols |-> Dollars(market_data_cache[s].reading.current_price)]

IsTrade(signal) == signal.signal \in {"buy", "sell"}

\* get_trade_recommendations, lines 152-188, on the signals returned
RecommendationsFrom(signals) ==
    LET trades == SelectSeq(signals, IsTrade)
    IN  [i \in DOMAIN trades |->
            [symbol |-> trades[i].symbol, action |-> trades[i].signal,
             confidence |-> trades[i].confidence,
             current_price |-> Dollars(trades[i].entry_price)]]

\* POST /auto-trading/execute, lines 259-269
AutoSweepBegin ==
    /\ svc_pc = "idle"
    /\ auto_enabled
    /\ Len(svc_db.orders) < MaxSvcOrders
    /\ dep_threads.market.pc = "idle"
    /\ dep_threads.signal.pc = "idle"
    /\ svc_queue' = RecommendationsFrom(
           SubSeq(deployment_signals, 1,
                  Min(TopSignals, Len(deployment_signals))))
    /\ svc_pc' = "sweep"
    /\ svc_session' = svc_db
    /\ op' = "sweep_begin"
    /\ UNCHANGED <<svc_db, svc_result, svc_prices, auto_enabled,
                   auto_max_position_size, auto_min_confidence>>
    /\ UNCHANGED <<accounts, positions, trade_history, market_prices,
                   order_counter, result, raceVars,
                   svc_requests, aiVars, sigVars, depVars, botVars>>

AutoSweepStep == SweepStepOn(DepPrices)

AutoNext ==
    \/ DepUpdateMarketData
    \/ GenerateAllSignals
    \/ ToggleAutoTrading
    \/ UpdateAutoTradingSettings
    \/ AutoSweepBegin
    \/ AutoSweepStep
    \/ SweepEnd

\* ----------------------------------------------- the indicators alone
\* One more sample is appended (update_market_data, line 213) and the two
\* indicators are calculated on the list (lines 238 and 244).
CalculateOnNextSample ==
    \E new_price \in PriceLevels :
        LET prices == Append(dep_result.samples, new_price)
        IN  /\ Len(dep_result.samples) < MinSamples + MaxAppended
            /\ dep_result' = [dep_result EXCEPT
                   !.samples = prices,
                   !.rsi = CalculateRsi(prices),
                   !.bands = CalculateBollingerBands(prices)]
            /\ op' = "calculate_indicators"
            /\ UNCHANGED <<market_data_cache, deployment_signals, dep_threads>>
            /\ UNCHANGED <<accounts, positions, trade_history, market_prices,
                           order_counter, result, raceVars, svcVars, aiVars,
                           sigVars, botVars>>

IndicatorNext == CalculateOnNextSample

\* ----------------------------------------------- the two threads, by line
\* The market thread runs update_market_data and the signal thread runs
\* calculate_technical_indicators with no lock between them; a step below
\* is one statement.  `prices` and `volumes` of the signal thread are
\* references: while the list is the one in the cache (live) its length is
\* the cache's; once the market thread has rebound the cache entry to a
\* trimmed copy, the reference keeps the list as it was.
DepUnchangedOthers ==
    UNCHANGED <<accounts, positions, trade_history, market_prices,
                order_counter, result, raceVars, svcVars, aiVars, sigVars, botVars>>

\* lines 189-210: the call begins
MarketBegin ==
    \E symbol \in DepSymbols :
        /\ dep_threads.market.pc = "idle"
        /\ dep_threads.ticks < MaxTicks
        /\ dep_threads' = [dep_threads EXCEPT
                              !.ticks = @ + 1,
                              !.market = [pc |-> "append_price",
                                          symbol |-> symbol]]
        /\ op' = "market_begin"
        /\ UNCHANGED <<market_data_cache, deployment_signals, dep_result>>
        /\ DepUnchangedOthers

\* line 213: data['price_history'].append(new_price)
MarketAppendPrice ==
    LET symbol == dep_threads.market.symbol IN
    /\ dep_threads.market.pc = "append_price"
    /\ \E reading \in ReadingsOf(symbol)
                          \ {market_data_cache[symbol].reading} :
          market_data_cache' = [market_data_cache EXCEPT ![symbol] =
              [@ EXCEPT !.reading = reading,
                        !.price_history = @ + 1]]
    /\ dep_threads' = [dep_threads EXCEPT !.market.pc = "append_volume"]
    /\ op' = "market_append_price"
    /\ UNCHANGED <<deployment_signals, dep_result>>
    /\ DepUnchangedOthers

\* line 214: data['volume_history'].append(data['volume'])
MarketAppendVolume ==
    LET symbol == dep_threads.market.symbol IN
    /\ dep_threads.market.pc = "append_volume"
    /\ market_data_cache' = [market_data_cache EXCEPT
                                ![symbol].volume_history = @ + 1]
    /\ dep_threads' = [dep_threads EXCEPT !.market.pc = "check"]
    /\ op' = "market_append_volume"
    /\ UNCHANGED <<deployment_signals, dep_result>>
    /\ DepUnchangedOthers

\* line 217: if len(data['price_history']) > 200
MarketCheck ==
    LET symbol == dep_threads.market.symbol IN
    /\ dep_threads.market.pc = "check"
    /\ dep_threads' = [dep_threads EXCEPT !.market.pc =
           IF market_data_cache[symbol].price_history > HistoryLimit
           THEN "trim_price" ELSE "idle"]
    /\ op' = "market_check"
    /\ UNCHANGED <<market_data_cache, deployment_signals, dep_result>>
    /\ DepUnchangedOthers

\* line 218: data['price_history'] = data['price_history'][-200:]
MarketTrimPrice ==
    LET symbol == dep_threads.market.symbol
        held == /\ dep_threads.signal.symbol = symbol
                /\ dep_threads.signal.prices_live
    IN
    /\ dep_threads.market.pc = "trim_price"
    /\ market_data_cache' = [market_data_cache EXCEPT
           ![symbol].price_history = Min(@, HistoryLimit)]
    /\ dep_threads' = [dep_threads EXCEPT
           !.market.pc = "trim_volume",
           !.signal.prices_live = IF held THEN FALSE ELSE @,
           !.signal.prices =
               IF held THEN market_data_cache[symbol].price_history
               ELSE @]
    /\ op' = "market_trim_price"
    /\ UNCHANGED <<deployment_signals, dep_result>>
    /\ DepUnchangedOthers

\* line 219: data['volume_history'] = data['volume_history'][-200:]
MarketTrimVolume ==
    LET symbol == dep_threads.market.symbol
        held == /\ dep_threads.signal.symbol = symbol
                /\ dep_threads.signal.volumes_live
    IN
    /\ dep_threads.market.pc = "trim_volume"
    /\ market_data_cache' = [market_data_cache EXCEPT
           ![symbol].volume_history = Min(@, HistoryLimit)]
    /\ dep_threads' = [dep_threads EXCEPT
           !.market.pc = "idle",
           !.signal.volumes_live = IF held THEN FALSE ELSE @,
           !.signal.volumes =
               IF held THEN market_data_cache[symbol].volume_history
               ELSE @]
    /\ op' = "market_trim_volume"
    /\ UNCHANGED <<deployment_signals, dep_result>>
    /\ DepUnchangedOthers

\* lines 223-228: calculate_technical_indicators(symbol) begins
SignalBegin ==
    \E symbol \in DepSymbols :
        /\ dep_threads.signal.pc = "idle"
        /\ dep_threads' = [dep_threads EXCEPT !.signal =
               [pc |-> "read_prices", symbol |-> symbol,
                prices_live |-> FALSE, prices |-> 0,
                volumes_live |-> FALSE, volumes |-> 0]]
        /\ op' = "signal_begin"
        /\ UNCHANGED <<market_data_cache, deployment_signals, dep_result>>
        /\ DepUnchangedOthers

\* line 229: prices = data['price_history']
SignalReadPrices ==
    /\ dep_threads.signal.pc = "read_prices"
    /\ dep_threads' = [dep_threads EXCEPT !.signal.pc = "read_volumes",
                                          !.signal.prices_live = TRUE]
    /\ op' = "signal_read_prices"
    /\ UNCHANGED <<market_data_cache, deployment_signals, dep_result>>
    /\ DepUnchangedOthers

\* line 230: volumes = data['volume_history']
SignalReadVolumes ==
    /\ dep_threads.signal.pc = "read_volumes"
    /\ dep_threads' = [dep_threads EXCEPT !.signal.pc = "compute",
                                          !.signal.volumes_live = TRUE]
    /\ op' = "signal_read_volumes"
    /\ UNCHANGED <<market_data_cache, deployment_signals, dep_result>>
    /\ DepUnchangedOthers

\* lines 232-266: the computation takes len(prices) and len(volumes)
SignalCompute ==
    LET symbol == dep_threads.signal.symbol
        sig == dep_threads.signal
    IN
    /\ sig.pc = "compute"
    /\ dep_threads' = [dep_threads EXCEPT !.signal =
           [pc |-> "computed", symbol |-> symbol,
            prices_live |-> FALSE,
            prices |-> IF sig.prices_live
                       THEN market_data_cache[symbol].price_history
                       ELSE sig.prices,
            volumes_live |-> FALSE,
            volumes |-> IF sig.volumes_live
                        THEN market_data_cache[symbol].volume_history
                        ELSE sig.volumes]]
    /\ op' = "signal_compute"
    /\ UNCHANGED <<market_data_cache, deployment_signals, dep_result>>
    /\ DepUnchangedOthers

\* lines 268-283: the snapshot is returned
SignalReturn ==
    /\ dep_threads.signal.pc = "computed"
    /\ dep_threads' = [dep_threads EXCEPT !.signal = IdleThreads.signal]
    /\ op' = "signal_return"
    /\ UNCHANGED <<market_data_cache, deployment_signals, dep_result>>
    /\ DepUnchangedOthers

DepRaceNext ==
    \/ MarketBegin
    \/ MarketAppendPrice
    \/ MarketAppendVolume
    \/ MarketCheck
    \/ MarketTrimPrice
    \/ MarketTrimVolume
    \/ SignalBegin
    \/ SignalReadPrices
    \/ SignalReadVolumes
    \/ SignalCompute
    \/ SignalReturn

\* =====================================================================
\* Part 6: AITradingBot (ai_trading_bot.py) and the demo account of the
\* engine it trades on (real_trading_engine.py).  Prices and the balance
\* are in cents, scores and confidences in 1/10000.
\* =====================================================================
MaxStarts == 2         \* start_bot calls in one run: one thread each
BuyThreshold == 7000       \* combined_score > 0.7
ConfidenceCap == 9500      \* min(combined_score, 0.95)
TakeProfitPct == 10        \* BotConfig.take_profit_pct
StopLossPct == 5           \* BotConfig.stop_loss_pct
DemoPaperBalance == 10000000   \* _validate_demo_account: $100,000

BotSymbols == {"BTC", "AAPL"}
\* base_prices of _get_market_data, market_prices of _execute_demo_trade
BotBasePrice(symbol) == IF symbol = "BTC" THEN 4200000 ELSE 18500
SymbolLists == {<<"BTC", "AAPL">>, <<"AAPL">>}
MinConfidences == {5000, 7000}
BotThreadIds == 1..MaxStarts

\* what one _generate_ai_signal call draws and fetches: the price movement
\* in percent, whether the volume is above 5,000,000, and the sentiment the
\* posts add up to
BotDraws ==
    [price_change : {0 - 5, 5}, high_volume : BOOLEAN,
     sentiment : {0 - 10000, 10000}]
ExitPriceChanges == {0 - 5, 0, 5}

GetMarketData(symbol, price_change) ==
    LET current_price == (BotBasePrice(symbol) * (100 + price_change)) \div 100
    IN  [price |-> current_price,
         change_24h |-> price_change,
         high_24h |-> Frac(current_price * 103, 100),
         low_24h |-> Frac(current_price * 97, 100)]

TechnicalAnalysis(market_data) ==
    LET price_position ==
            RDiv(RSub(R(market_data.price), market_data.low_24h),
                 RSub(market_data.high_24h, market_data.low_24h))
    IN  IF RLt(Frac(8, 10), price_position) THEN 0 - 5000
        ELSE IF RLt(price_position, Frac(2, 10)) THEN 5000
        ELSE 0

AnalyzeMomentum(market_data, high_volume) ==
    LET momentum_score == market_data.change_24h * 100
        boosted == IF high_volume THEN (momentum_score * 12) \div 10
                   ELSE momentum_score
    IN  IF boosted > 10000 THEN 10000
        ELSE IF boosted < 0 - 10000 THEN 0 - 10000
        ELSE boosted

AnalyzeVolatility(market_data) ==
    LET volatility ==
            RDiv(RSub(market_data.high_24h, market_data.low_24h),
                 R(market_data.price))
    IN  IF RLt(Frac(1, 10), volatility) THEN 2000 ELSE 0 - 1000

\* the weights of model_weights are 0.3, 0.4, 0.2 and 0.1
CombinedScore(symbol, draw) ==
    LET market_data == GetMarketData(symbol, draw.price_change)
    IN  (draw.sentiment * 3
         + TechnicalAnalysis(market_data) * 4
         + AnalyzeMomentum(market_data, draw.high_volume) * 2
         + AnalyzeVolatility(market_data) * 1) \div 10

NoBotSignal == [action |-> "hold"]

\* _generate_ai_signal: None for a hold
GenerateAiSignal(symbol, draw) ==
    LET combined_score == CombinedScore(symbol, draw)
        current_price == GetMarketData(symbol, draw.price_change).price
    IN  IF combined_score > BuyThreshold
        THEN [symbol |-> symbol, action |-> "buy",
              confidence |-> Min(combined_score, ConfidenceCap),
              price_target |->
                  (current_price * (100 + TakeProfitPct)) \div 100,
              stop_loss |-> (current_price * (100 - StopLossPct)) \div 100]
        ELSE IF combined_score < 0 - BuyThreshold
        THEN [symbol |-> symbol, action |-> "sell",
              confidence |-> Min(Abs(combined_score), ConfidenceCap),
              price_target |->
                  (current_price * (100 - TakeProfitPct)) \div 100,
              stop_loss |-> (current_price * (100 + StopLossPct)) \div 100]
        ELSE NoBotSignal

\* _process_signal: TradeOrder of real_trading_engine.py has no stop_loss
\* and no take_profit field, so building the order (lines 416-423) raises
\* TypeError, the except of line 447 logs it and nothing is tracked
ProcessSignal(tracked, signal) == tracked

NoBotPosition == [side |-> "none"]

\* _execute_demo_trade for a market order of the demo user: the result and
\* the account after it
ExecuteDemoTrade(account, symbol, side, quantity) ==
    LET price == BotBasePrice(symbol)
        total_cost == price * quantity
        current_position == account.user_positions[symbol]
    IN  IF side = "buy"
        THEN IF total_cost > account.balance
             THEN [success |-> FALSE, account |-> account]
             ELSE [success |-> TRUE,
                   account |->
                       [balance |-> account.balance - total_cost,
                        user_positions |->
                            [account.user_positions EXCEPT ![symbol] =
                                 current_position + quantity]]]
        ELSE IF current_position < quantity
             THEN [success |-> FALSE, account |-> account]
             ELSE [success |-> TRUE,
                   account |->
                       [balance |-> account.balance + total_cost,
                        user_positions |->
                            [account.user_positions EXCEPT ![symbol] =
                                 current_position - quantity]]]

\* lines 514-536: stop loss, take profit, or older than 24 hours
ShouldExit(position, current_price) ==
    \/ position.side = "buy" /\ current_price <= position.stop_loss
    \/ position.side = "sell" /\ current_price >= position.stop_loss
    \/ position.side = "buy" /\ current_price >= position.take_profit
    \/ position.side = "sell" /\ current_price <= position.take_profit
    \/ position.expired

\* _close_position: the exit order, opposite to the side of the position
CloseBotPosition(account, symbol, position) ==
    ExecuteDemoTrade(account, symbol,
                     IF position.side = "buy" THEN "sell" ELSE "buy",
                     position.quantity)

\* lines 542-544: del self.active_positions[symbol] for every symbol of
\* positions_to_close
RemoveClosed(tracked, positions_to_close, closed) ==
    [s \in BotSymbols |->
        IF s \in positions_to_close THEN NoBotPosition ELSE tracked[s]]

\* _check_position_exits with the price movement drawn for each symbol.
\* The exit orders are for different symbols, so the order of the loop
\* does not matter to the account: BTC first, then AAPL.
CheckPositionExitsOn(tracked, account, changes) ==
    LET exits(s) ==
            /\ tracked[s] # NoBotPosition
            /\ ShouldExit(tracked[s], GetMarketData(s, changes[s]).price)
        positions_to_close == {s \in BotSymbols : exits(s)}
        btc == IF exits("BTC")
               THEN CloseBotPosition(account, "BTC", tracked["BTC"])
               ELSE [success |-> FALSE, account |-> account]
        aapl == IF exits("AAPL")
                THEN CloseBotPosition(btc.account, "AAPL", tracked["AAPL"])
                ELSE [success |-> FALSE, account |-> btc.account]
        closed == [s \in BotSymbols |->
                      IF ~exits(s) THEN "none"
                      ELSE IF (IF s = "BTC" THEN btc ELSE aapl).success
                           THEN "ok"
                      ELSE "failed"]
    IN  [positions |-> RemoveClosed(tracked, positions_to_close, closed),
         account |-> aapl.account,
         closed |-> closed]

NoThread == [pc |-> "none", i |-> 0, score |-> 0]

BotInit ==
    /\ is_running = FALSE
    /\ bot_config = [enabled |-> FALSE, min_confidence |-> 7000,
                     symbols |-> <<"BTC", "AAPL">>]
    /\ signals_history = <<>>
    /\ active_positions = [s \in BotSymbols |-> NoBotPosition]
    /\ bot_threads = [t \in BotThreadIds |-> NoThread]
    /\ demo_account = [balance |-> DemoPaperBalance,
                       user_positions |-> [s \in BotSymbols |-> 0]]
    /\ bot_result = [closed |-> [s \in BotSymbols |-> "none"]]

BotUnchangedOthers ==
    UNCHANGED <<accounts, positions, trade_history, market_prices,
                order_counter, result, raceVars, svcVars, aiVars, sigVars,
                depVars>>

\* POST /api/bot/start: the route builds an enabled BotConfig and calls
\* start_bot, which stores it, sets is_running and starts a thread
StartBot ==
    \E symbols \in SymbolLists, min_confidence \in MinConfidences :
    \E t \in BotThreadIds :
        /\ bot_threads[t].pc = "none"
        /\ \A u \in BotThreadIds : u < t => bot_threads[u].pc # "none"
        /\ bot_config' = [enabled |-> TRUE, min_confidence |-> min_confidence,
                          symbols |-> symbols]
        /\ is_running' = TRUE
        /\ bot_threads' = [bot_threads EXCEPT ![t].pc = "while"]
        /\ op' = "start_bot"
        /\ UNCHANGED <<signals_history, active_positions, demo_account,
                       bot_result>>
        /\ BotUnchangedOthers

\* POST /api/bot/stop
StopBot ==
    /\ is_running' = FALSE
    /\ op' = "stop_bot"
    /\ UNCHANGED <<bot_config, signals_history, active_positions,
                   bot_threads, demo_account, bot_result>>
    /\ BotUnchangedOthers

\* line 117: while self.is_running
LoopWhile ==
    \E t \in BotThreadIds :
        /\ bot_threads[t].pc = "while"
        /\ bot_threads' = [bot_threads EXCEPT ![t] =
               IF is_running THEN [pc |-> "signal", i |-> 1, score |-> 0]
               ELSE [pc |-> "done", i |-> 0, score |-> 0]]
        /\ op' = "bot_loop_while"
        /\ UNCHANGED <<is_running, bot_config, signals_history,
                       active_positions, demo_account, bot_result>>
        /\ BotUnchangedOthers

\* lines 120-124: one turn of the loop over config.symbols
LoopSignal ==
    \E t \in BotThreadIds :
    \E draw \in BotDraws :
        LET i == bot_threads[t].i
            symbol == bot_config.symbols[i]
            signal == GenerateAiSignal(symbol, draw)
        IN  /\ bot_threads[t].pc = "signal"
            /\ i <= Len(bot_config.symbols)
            /\ signals_history' =
                   IF signal # NoBotSignal
                   THEN Append(signals_history, signal)
                   ELSE signals_history
            /\ active_positions' =
                   IF /\ signal # NoBotSignal
                      /\ signal.confidence >= bot_config.min_confidence
                   THEN ProcessSignal(active_positions, signal)
                   ELSE active_positions
            /\ bot_threads' = [bot_threads EXCEPT ![t] =
                   [pc |-> "signal", i |-> i + 1,
                    score |-> CombinedScore(symbol, draw)]]
            /\ op' = "generate_ai_signal"
            /\ UNCHANGED <<is_running, bot_config, demo_account, bot_result>>
            /\ BotUnchangedOthers

\* line 127, reached when the loop over the symbols is over, and then
\* time.sleep(30)
LoopExits ==
    \E t \in BotThreadIds :
    \E changes \in [BotSymbols -> ExitPriceChanges] :
        LET after ==
                CheckPositionExitsOn(active_positions, demo_account, changes)
        IN  /\ bot_threads[t].pc = "signal"
            /\ bot_threads[t].i > Len(bot_config.symbols)
            /\ changes = [s \in BotSymbols |-> 0]
               \/ active_positions # [s \in BotSymbols |-> NoBotPosition]
            /\ active_positions' = after.positions
            /\ demo_account' = after.account
            /\ bot_result' = [closed |-> after.closed]
            /\ bot_threads' = [bot_threads EXCEPT ![t] =
                   [pc |-> "sleep", i |-> 0, score |-> 0]]
            /\ op' = "check_position_exits"
            /\ UNCHANGED <<is_running, bot_config, signals_history>>
            /\ BotUnchangedOthers

\* time.sleep(30) returns
LoopWake ==
    \E t \in BotThreadIds :
        /\ bot_threads[t].pc = "sleep"
        /\ bot_threads' = [bot_threads EXCEPT ![t].pc = "while"]
        /\ op' = "bot_loop_wake"
        /\ UNCHANGED <<is_running, bot_config, signals_history,
                       active_positions, demo_account, bot_result>>
        /\ BotUnchangedOthers

BotNext ==
    StartBot \/ StopBot \/ LoopWhile \/ LoopSignal \/ LoopExits \/ LoopWake

\* ---------------------------------------- _check_position_exits alone
\* The positions the method is given: for each symbol none, or a long or
\* short position of 1 or 3 units, with the stop loss and the take profit
\* _generate_ai_signal derives from a price near the base price, younger
\* or older than 24 hours.
PositionInputs(symbol) ==
    {[side |-> side, quantity |-> quantity,
      entry_price |-> BotBasePrice(symbol),
      stop_loss |-> IF side = "buy"
                    THEN (BotBasePrice(symbol) * 97) \div 100
                    ELSE (BotBasePrice(symbol) * 103) \div 100,
      take_profit |-> IF side = "buy"
                      THEN (BotBasePrice(symbol) * 107) \div 100
                      ELSE (BotBasePrice(symbol) * 93) \div 100,
      expired |-> expired] :
        side \in {"buy", "sell"}, quantity \in {1, 3}, expired \in BOOLEAN}

Holdings == {0, 3}

BotExitsInit ==
    /\ is_running = TRUE
    /\ bot_config = [enabled |-> TRUE, min_confidence |-> 7000,
                     symbols |-> <<"BTC", "AAPL">>]
    /\ signals_history = <<>>
    /\ active_positions \in
           {f \in [BotSymbols ->
                      UNION {PositionInputs(s) : s \in BotSymbols}
                          \cup {NoBotPosition}] :
               \A s \in BotSymbols :
                   f[s] = NoBotPosition \/ f[s] \in PositionInputs(s)}
    /\ bot_threads = [t \in BotThreadIds |-> NoThread]
    /\ demo_account \in
           [balance : {DemoPaperBalance},
            user_positions : [BotSymbols -> Holdings]]
    /\ bot_result = [closed |-> [s \in BotSymbols |-> "none"]]

CheckPositionExits ==
    \E changes \in [BotSymbols -> ExitPriceChanges] :
        LET after ==
                CheckPositionExitsOn(active_positions, demo_account, changes)
        IN  /\ active_positions' = after.positions
            /\ demo_account' = after.account
            /\ bot_result' = [closed |-> after.closed]
            /\ op' = "check_position_exits"
            /\ UNCHANGED <<is_running, bot_config, signals_history,
                           bot_threads>>
            /\ BotUnchangedOthers

BotExitsNext == CheckPositionExits

Init ==
    /\ EngineInit /\ RaceInit /\ SvcInit /\ SvcRaceInit /\ AiInit /\ SigInit
    /\ DepInit /\ BotInit

\* ------------------------------------------------- GET /orders/history
DefaultHistoryLimit == 50  \* request.args.get('limit', 50)
HistoryLimits == {1, DefaultHistoryLimit}

\* get_trade_history (lines 306-314): sorted(...)[:limit] is a new list of
\* the stored dicts themselves, the `limit` most recent ones; records are
\* appended in time order, so these are the last ones of the stored list.
GetTradeHistory(hist, limit) == {i \in DOMAIN hist : i > Len(hist) - limit}

\* the keys the route stores into a returned buy record (lines 585-589)
Analytics(trade, current_price) ==
    IF trade.side = "buy"
    THEN [current_price |-> current_price,
          unrealized_pnl |->
              (current_price * SlippageDivisor - trade.executed_price)
                  * trade.executed_quantity,
          unrealized_pnl_percentage |->
              Frac((current_price * SlippageDivisor - trade.executed_price)
                       * 100, trade.executed_price)] @@ trade
    ELSE trade

\* GET /orders/history -> get_order_history
GetOrderHistory ==
    \E user_id \in Users, limit \in HistoryLimits :
        LET hist == trade_history[user_id]
            trades == GetTradeHistory(hist, limit)
        IN  /\ trade_history' = [trade_history EXCEPT ![user_id] =
                   [i \in DOMAIN hist |->
                       IF i \in trades
                       THEN Analytics(hist[i],
                                GetMarketPrice(market_prices,
                                               hist[i].symbol))
                       ELSE hist[i]]]
            /\ op' = "get_order_history"
            /\ UNCHANGED <<accounts, positions, market_prices,
                           order_counter, result, raceVars, svcVars, aiVars, sigVars, depVars, botVars>>

\* the engine with the history endpoint
HistoryNext == ExecuteTrade \/ AddAccount \/ UpdatePrices \/ GetOrderHistory

SpecHistory == Init /\ [][HistoryNext]_vars

Next == ExecuteTrade \/ AddAccount \/ UpdatePrices

Spec == Init /\ [][Next]_vars

RaceNext ==
    \/ RaceSetup
    \/ \E t \in ThreadIds : RaceBegin(t)
    \/ \E t \in ThreadIds : RaceStep(t)

SpecRace == Init /\ [][RaceNext]_vars

SpecSvc == Init /\ [][SvcNext]_vars

SpecSvcRace == Init /\ [][SvcRaceNext]_vars

\* manual orders with deposits and withdrawals
FundsNext ==
    \/ ExecuteOrder
    \/ AddFunds
    \/ WithdrawFunds
    \/ UpdateMarketData

SpecFunds == Init /\ [][FundsNext]_vars

SpecAi == Init /\ [][AiNext]_vars

\* the automated sweeps of a portfolio whose settings the user edits
SweepNext ==
    \/ SweepBegin
    \/ SweepStep
    \/ SweepEnd
    \/ ToggleAutoTrading
    \/ UpdateAutoTradingSettings
    \/ AddFunds
    \/ UpdateMarketData

SpecSweep == Init /\ [][SweepNext]_vars

SpecSignals == Init /\ [][SigNext]_vars

SpecDeploy == Init /\ [][DepNext]_vars

SpecDeployRace == Init /\ [][DepRaceNext]_vars

SpecIndicators == Init /\ [][IndicatorNext]_vars

SpecAuto == Init /\ [][AutoNext]_vars

SpecBot == Init /\ [][BotNext]_vars

InitBotExits ==
    /\ EngineInit /\ RaceInit /\ SvcInit /\ SvcRaceInit /\ AiInit /\ SigInit
    /\ DepInit /\ BotExitsInit

SpecBotExits == InitBotExits /\ [][BotExitsNext]_vars

\* =====================================================================
\* Properties of RealTradingEngine.execute_trade (specification Spec)
\* =====================================================================

\* C1: after any sequence of orders, whatever their side, quantity, type
\* and price, the cash balance of every account is at least zero.
C1_CashNeverNegative ==
    \A u \in DOMAIN accounts : accounts[u].balance >= 0

\* C2: a sell asking for more than is held of the symbol is rejected as
\* "Insufficient position to sell", and after any call no symbol's held
\* quantity is below zero.
C2_NoOverselling ==
    [][\A u \in Users, o \in TradeOrders, sl \in Slippages :
         ExecuteTradeCall(u, o, sl) =>
            /\ (/\ o.side = "sell"
                /\ NormalizeSymbol(o.symbol) \in DOMAIN market_prices
                /\ o.quantity > PositionGet(positions[u],
                                            NormalizeSymbol(o.symbol)))
               => (~result'.success
                   /\ result'.message = "Insufficient position to sell")
            /\ \A sym \in DOMAIN positions'[u] : positions'[u][sym] >= 0
      ]_vars

RoundTrip(u, raw, q, p) ==
    LET r1 == ExecTrade(CurrentEngine, market_prices, u,
                        LimitOrder(raw, "buy", q, p), 0)
        r2 == ExecTrade(r1.engine, market_prices, u,
                        LimitOrder(raw, "sell", q, p), 0)
    IN  [both |-> r1.result.success /\ r2.result.success,
         engine |-> r2.engine]

LimitSatisfied(o, current_price) ==
    IF o.side = "buy" THEN current_price <= o.price
    ELSE current_price >= o.price

\* C9: a limit order fills at its limit price only if the market price
\* satisfies the limit; otherwise it is rejected and the balance, the
\* positions and the trade history do not change.
C9_LimitRespected ==
    [][\A u \in Users, o \in TradeOrders, sl \in Slippages :
         (/\ ExecuteTradeCall(u, o, sl)
          /\ o.order_type = "limit"
          /\ o.price # 0
          /\ NormalizeSymbol(o.symbol) \in DOMAIN market_prices)
         => IF LimitSatisfied(o, market_prices[NormalizeSymbol(o.symbol)])
            THEN result'.success
                   => result'.executed_price = o.price * SlippageDivisor
            ELSE /\ ~result'.success
                 /\ UNCHANGED <<accounts, positions, trade_history>>
      ]_vars

\* the trade a successful execute_trade step appended for the user
FilledTrade(user_id) ==
    trade_history'[user_id][Len(trade_history'[user_id])]

\* C16: every order execute_trade fills is one check_position_limits allows
\* at the time of the call, and after a filled buy the market value of the
\* position is at most 25% of the portfolio value.
C16_FillsRespectPositionLimits ==
    [][\A user_id \in Users :
          (/\ op' = "execute_trade"
           /\ result'.success
           /\ Len(trade_history'[user_id]) > Len(trade_history[user_id])
           /\ FilledTrade(user_id).side = "buy"
           /\ FilledTrade(user_id).quantity > 0) =>
             /\ CheckPositionLimits(CurrentEngine, market_prices, user_id,
                                    FilledTrade(user_id).symbol,
                                    FilledTrade(user_id).quantity, "buy")
             /\ positions'[user_id][FilledTrade(user_id).symbol]
                    * market_prices[FilledTrade(user_id).symbol] * FeeDivisor
                    * (100 \div MaxPositionPercentage)
                  <= PortfolioValue(Engine(accounts', positions',
                                           trade_history', order_counter'),
                                    market_prices, user_id)]_vars

\* =====================================================================
\* Two concurrent execute_trade calls (specification SpecRace)
\* =====================================================================

\* what C3 compares: cash, positions and the trades without their ids
Outcome(e) ==
    [balance |-> e.accounts[RaceUser].balance,
     positions |-> e.positions[RaceUser],
     trades |-> [i \in 1..Len(e.trade_history[RaceUser]) |->
                   [symbol |-> e.trade_history[RaceUser][i].symbol,
                    side |-> e.trade_history[RaceUser][i].side,
                    quantity |-> e.trade_history[RaceUser][i].quantity,
                    executed_price |->
                        e.trade_history[RaceUser][i].executed_price,
                    fees |-> e.trade_history[RaceUser][i].fees]]]

\* the two calls run one after the other, a then b, from raceBase
Serial(a, b) ==
    ExecTrade(ExecTrade(raceBase, market_prices, RaceUser,
                        threads[a].order, threads[a].slippage).engine,
              market_prices, RaceUser,
              threads[b].order, threads[b].slippage).engine

BothDone == \A t \in ThreadIds : threads[t].pc = "done"

\* C3: when both concurrent calls have returned, cash, positions and
\* trade history are those of running the two calls one after the other
\* in one of the two orders.
C3_ConcurrentCallsSerialize ==
    BothDone =>
        \/ Outcome(CurrentEngine) = Outcome(Serial(1, 2))
        \/ Outcome(CurrentEngine) = Outcome(Serial(2, 1))

\* =====================================================================
\* Properties of TradeExecutionService.execute_market_order
\* (specifications SpecSvc and SpecSvcRace)
\* =====================================================================

\* what one recommendation of a sweep does when execute_market_order is
\* called for it on the committed rows alone
SweepCallAlone(rec) ==
    ExecuteMarketOrder(svc_db, svc_db, svc_prices, rec.symbol, rec.action,
                       SweepQuantity(rec), TRUE)

LastOrder(b) == b.orders[Len(b.orders)]

\* the step is a call of execute_market_order that filled an order of side
Filled(side) ==
    /\ op' \in {"execute_order", "sweep_call"}
    /\ svc_result'.success
    /\ LastOrder(svc_db').side = side

BuyAveraged(before, after, symbol, quantity, price) ==
    LET idx == FirstActive(before, symbol) IN
    IF idx # 0
    THEN /\ Len(after) = Len(before)
         /\ after[idx].symbol = symbol
         /\ after[idx].is_active
         /\ after[idx].quantity = RAdd(before[idx].quantity, quantity)
         /\ RMul(after[idx].average_price,
                 RAdd(before[idx].quantity, quantity)) =
               RAdd(RMul(before[idx].quantity, before[idx].average_price),
                    RMul(quantity, price))
    ELSE /\ Len(after) = Len(before) + 1
         /\ after[Len(after)].symbol = symbol
         /\ after[Len(after)].is_active
         /\ after[Len(after)].quantity = quantity
         /\ after[Len(after)].average_price = price

OpenPositions(rows, symbol) ==
    {i \in 1..Len(rows) : rows[i].symbol = symbol /\ rows[i].is_active}

C18_SweepInDescendingConfidence ==
    [][op' = "sweep_call" =>
          \A i \in 2..Len(svc_queue) :
              svc_queue[i].confidence >= auto_min_confidence =>
                  svc_queue[i].confidence <= Head(svc_queue).confidence]_vars

\* C19: a failure raised while one recommendation is handled does not
\* abort the sweep: the sweep returns only when no recommendation that
\* meets the confidence floor is left after the one being handled.
C19_FailureDoesNotAbortSweep ==
    [][(svc_pc = "sweep" /\ svc_pc' = "idle") =>
          \A i \in 2..Len(svc_queue) :
              svc_queue[i].confidence < auto_min_confidence]_vars

\* =====================================================================
\* Properties of the portfolio value (specification SpecFunds)
\* =====================================================================

\* the open position rows of a book
OpenRows(b) == {i \in 1..Len(b.positions) : b.positions[i].is_active}

\* the sum of quantity * current_price over the rows of the index set
RECURSIVE InvestedValue(_, _)
InvestedValue(b, rows) ==
    IF rows = {} THEN R(0)
    ELSE LET i == CHOOSE j \in rows : TRUE
         IN  RAdd(RMul(b.positions[i].quantity, b.positions[i].current_price),
                  InvestedValue(b, rows \ {i}))

Decides(signal_type) ==
    /\ op' \in {"ai_trade", "ai_refuse"}
    /\ Head(ai_queue).signal_type = signal_type

OpenedToday(asset) ==
    \E i \in 1..Len(ai_trades) :
        /\ ai_trades[i].today
        /\ ai_trades[i].trade_type = "BUY"
        /\ ai_trades[i].asset = asset

\* the unrealized P&L of the current day over the open rows from row i on:
\* quantity * (current_price - the entry price of a position opened today,
\* or else the price at which the day began)
RECURSIVE DayUnrealizedFrom(_, _)
DayUnrealizedFrom(pos, i) ==
    IF i > Len(pos) THEN R(0)
    ELSE RAdd(IF pos[i].is_open
              THEN RMul(pos[i].quantity,
                        RSub(pos[i].current_price,
                             IF OpenedToday(pos[i].asset)
                             THEN pos[i].entry_price
                             ELSE R(ai_day_open[pos[i].asset])))
              ELSE R(0),
              DayUnrealizedFrom(pos, i + 1))

\* the pnl realized today plus the unrealized pnl of today is below
\* -(daily_loss_limit * total_value)
DailyLossExceeded ==
    RLt(RAdd(TodayPnlFrom(ai_trades, 1), DayUnrealizedFrom(ai_positions, 1)),
        RSub(R(0), RMul(ai_portfolio.total_value,
                        ai_settings.daily_loss_limit)))

Candidates == {i \in 1..3 : sig_call.candidates[i] # None}

\* C20: generate_stock_signals stores, among the candidates the momentum,
\* mean-reversion and trend-following strategies return for the symbol,
\* the one of the highest confidence, and of those the earliest in that
\* order; when no strategy returns a candidate nothing is stored.
C20_BestCandidateStored ==
    [][op' = "generate_stock_signals" =>
          LET c == sig_call'.candidates IN
          IF Candidates' = {}
          THEN active_signals' = active_signals
          ELSE \E i \in Candidates' :
                  /\ \A j \in Candidates' :
                        \/ c[j].confidence < c[i].confidence
                        \/ c[j].confidence = c[i].confidence /\ i <= j
                  /\ active_signals' =
                        [active_signals EXCEPT ![sig_call'.symbol] = c[i]]
      ]_vars

\* momentum and trend following returned the same, highest confidence and
\* the momentum signal was stored
C20_Witness ==
    /\ op = "generate_stock_signals"
    /\ Candidates = {1, 2, 3}
    /\ sig_call.candidates[1].confidence = sig_call.candidates[3].confidence
    /\ sig_call.candidates[2].confidence < sig_call.candidates[1].confidence
    /\ active_signals[sig_call.symbol] = sig_call.candidates[1]

\* C22: execute_trade fills only buy and sell orders: every record in a
\* user's trade history has side buy or sell (an order with any other side
\* is rejected and adds no record).
C22_OnlyBuyOrSellFills ==
    \A u \in Users : \A i \in DOMAIN trade_history[u] :
        trade_history[u][i].side \in {"buy", "sell"}

\* C23: a trade record, once appended, is never modified or removed: over
\* every step (a later trade, a price tick, a read of the trade or order
\* history, any other operation) each record of a user's trade history is
\* still there afterwards, at its place and with the same content.
C23_TradeRecordsImmutable ==
    [][\A u \in Users : \A i \in DOMAIN trade_history[u] :
          /\ i \in DOMAIN trade_history'[u]
          /\ trade_history'[u][i] = trade_history[u][i]]_vars

\* =====================================================================
\* Properties of DeploymentTradingEngine (specification SpecDeploy)
\* =====================================================================

\* C21: at most one active signal per symbol.  After every step no two
\* active signals have the same symbol, and neither do two signals that
\* get_trading_signals returned; after a sweep, the signal a symbol got in
\* it is the symbol's active signal (it has replaced the previous one).
C21_OneSignalPerSymbol ==
    [][/\ \A i, j \in DOMAIN deployment_signals' :
             i # j => deployment_signals'[i].symbol
                          # deployment_signals'[j].symbol
       /\ \A i, j \in DOMAIN dep_result'.returned :
             i # j => dep_result'.returned[i].symbol
                          # dep_result'.returned[j].symbol
       /\ op' = "generate_all_signals" =>
             \A s \in DepSymbols :
                 dep_result'.sweep[s].signal # NoSignal =>
                     \E i \in DOMAIN deployment_signals' :
                         deployment_signals'[i] = dep_result'.sweep[s].signal
      ]_vars

\* a sweep has replaced the signal of a symbol by a different one, and
\* get_trading_signals has returned the signals of two symbols
C21_Witness ==
    /\ op = "get_trading_signals"
    /\ Len(dep_result.returned) >= 2
    /\ \E i \in DOMAIN dep_result.before :
       \E j \in DOMAIN dep_result.returned :
           /\ dep_result.before[i].symbol = dep_result.returned[j].symbol
           /\ dep_result.before[i] # dep_result.returned[j]

\* C24: signal generation is a function of the histories.  Two sweeps in
\* a row, with no market update between them, compute the same indicator
\* snapshot and the same signal (or no signal) for every symbol.
C24_SignalsDeterministic ==
    [][(op = "generate_all_signals" /\ op' = "generate_all_signals")
          => dep_result'.sweep = dep_result.sweep]_vars

\* the confidences of the branches of stock_trading_strategy whose
\* condition holds on the indicators
SatisfiedStockBranches(indicators, current_price) ==
    (IF /\ indicators.price_momentum_5d > 3
        /\ indicators.volume_ratio > 15
        /\ 50 <= indicators.rsi /\ indicators.rsi <= 75
        /\ indicators.macd > indicators.macd_signal
     THEN {40} ELSE {})
    \cup (IF /\ current_price <= indicators.bollinger_lower
             /\ indicators.rsi < 30
             /\ indicators.volume_ratio > 12
          THEN {30} ELSE {})
    \cup (IF /\ current_price > indicators.ema_50
             /\ indicators.ema_50 > indicators.ema_200
             /\ indicators.ema_9 > indicators.ema_21
             /\ indicators.adx > 25
          THEN {35} ELSE {})
    \cup (IF \/ indicators.rsi > 80
             \/ current_price < indicators.ema_9
             \/ indicators.price_momentum_5d < 0 - 5
          THEN {60} ELSE {})

\* C27: when the indicators of a stock satisfy more than one branch of
\* stock_trading_strategy, the signal the sweep published for the stock
\* has the confidence of the satisfied branch with the highest confidence.
C27_HighestConfidenceBranchWins ==
    \A s \in DepSymbols :
        LET r == dep_result.sweep[s] IN
        (AssetTypeOf(s) = "stock" /\ r.signal # NoSignal) =>
            LET satisfied == SatisfiedStockBranches(r.indicators,
                                                    r.signal.entry_price)
            IN  Cardinality(satisfied) > 1 =>
                    \A c \in satisfied : r.signal.confidence >= c

\* C25: the two histories of an instrument have the same length and at
\* most 200 entries: in the cache whenever no update is under way, and in
\* what a concurrent indicator computation takes as prices and volumes
\* (it sees a tick applied to both histories or to neither).
C25_HistoriesInStep ==
    /\ dep_threads.market.pc = "idle" =>
          \A s \in DepSymbols :
              /\ market_data_cache[s].price_history
                    = market_data_cache[s].volume_history
              /\ market_data_cache[s].price_history <= HistoryLimit
    /\ dep_threads.signal.pc = "computed" =>
          /\ dep_threads.signal.prices = dep_threads.signal.volumes
          /\ dep_threads.signal.prices <= HistoryLimit


\* C26: for a price list of at least 50 positive samples, calculate_rsi
\* returns a value from 0 to 100, and 100 when no price of the last 14
\* changes fell (the average loss is 0), and calculate_bollinger_bands
\* returns upper >= middle >= lower.
NoRecentLoss(prices) ==
    \A i \in (Len(prices) - RsiPeriod + 1)..Len(prices) :
        prices[i] >= prices[i - 1]

C26_IndicatorsInRange ==
    (/\ op = "calculate_indicators"
     /\ Len(dep_result.samples) >= MinSamples
     /\ \A i \in DOMAIN dep_result.samples : dep_result.samples[i] > 0)
    => /\ RLe(R(0), dep_result.rsi)
       /\ RLe(dep_result.rsi, R(100))
       /\ NoRecentLoss(dep_result.samples) => dep_result.rsi = R(100)
       /\ RLe(dep_result.bands.middle, dep_result.bands.upper)
       /\ RLe(dep_result.bands.lower, dep_result.bands.middle)

\* a list that rose and never fell: the index is 100 and the bands are apart
C26_Witness ==
    /\ op = "calculate_indicators"
    /\ Len(dep_result.samples) > MinSamples
    /\ NoRecentLoss(dep_result.samples)
    /\ dep_result.rsi = R(100)
    /\ RLt(dep_result.bands.middle, dep_result.bands.upper)
    /\ RLt(dep_result.bands.lower, dep_result.bands.middle)

\* =====================================================================
\* Properties of AITradingBot
\* =====================================================================
LiveLoops == {t \in BotThreadIds : bot_threads[t].pc \notin {"none", "done"}}

\* C28: after any sequence of start_bot and stop_bot calls at most one
\* _bot_loop thread is alive: a second start_bot while the bot runs, or one
\* issued after stop_bot while the old loop sleeps, leaves no second loop.
C28_AtMostOneLoop == Cardinality(LiveLoops) <= 1

C29_NoBuyAboveFloor ==
    [][/\ \A i \in DOMAIN deployment_signals' :
             /\ deployment_signals'[i].signal = "buy"
                    => deployment_signals'[i].confidence <= 40
             /\ deployment_signals'[i].signal = "sell"
                    => deployment_signals'[i].confidence >= 60
       /\ (op' = "sweep_call" /\ auto_min_confidence > 40)
              => Head(svc_queue).action # "buy"]_vars

\* a sweep under a floor above 0.40 has passed over a buy recommendation
\* and goes on to a sell recommendation that meets the floor
C29_Witness ==
    /\ op = "sweep_skip"
    /\ auto_min_confidence > 40
    /\ \E i \in DOMAIN deployment_signals :
          deployment_signals[i].signal = "buy"
    /\ svc_queue # <<>>
    /\ Head(svc_queue).action = "sell"
    /\ Head(svc_queue).confidence >= auto_min_confidence
====
